---- MODULE Spec2Model ----
(***************************************************************************)
(* gonfork: HTTP traffic duplication where only the response of the active *)
(* outbound is returned.  The model covers the Controller registry, the    *)
(* InboundServer copy-on-write reference, the Inbound fan-out engine and   *)
(* the identity of the StatsRecorders attached to each Inbound version.    *)
(***************************************************************************)
EXTENDS Integers, Sequences, FiniteSets, TLC

----------------------------------------------------------------------------
(* Bounds of the model. *)

\* operations in one behaviour: client requests accepted plus Inbound
\* versions published after the first one
MaxOps == 3
\* depth of an error: the wrappers (url.Error, net.OpError) and the error
\* they end in
MaxDepth == 3
\* InboundServers started by AddInbound in one behaviour
MaxInbounds == 2
\* callers inside a mutating call of the Controller at the same time
MaxCallers == 2
\* tasks calling Record, Read or Close on one StatsRecorder
MaxTasks == 3
\* ticks of the roller of that StatsRecorder
MaxRolls == 2
\* values handed to Distribution.Sample in one behaviour
MaxSamples == 4
\* operations in one behaviour that is checked for progress
MaxServed == 2

(* Program constants. *)

\* DefaultInboundTimeout, in milliseconds
DefaultInboundTimeout == 1000
\* http.StatusServiceUnavailable, the default TimeoutCode
StatusServiceUnavailable == 503
\* http.StatusBadRequest, answered when the request body cannot be read
StatusBadRequest == 400
\* http.DefaultMaxIdleConnsPerHost
DefaultMaxIdleConnsPerHost == 2
\* status codes answered by the backends of the test suite
StatusOK == 200
StatusCreated == 201
\* Timeout of the test suite's inbounds, in milliseconds
TestTimeout == 50
\* DefaultDistributionSize, the length Distribution.init gives Items
DefaultDistributionSize == 1000

(* Names and addresses the environment draws its inputs from. *)

OutNames == {"s0", "s1"}
\* "" is the empty address, which neither Validate nor AddOutbound rejects
Addrs == {"h0", ""}
\* "bob" is the inbound of the test suite, "nobody" is never registered
InNames == {"bob", "nobody"}
Outcomes == {"resp", "timeout", "error"}

ReqIds == 1..MaxOps
TaskIds == 1..MaxTasks
CallerIds == 1..MaxCallers

----------------------------------------------------------------------------
(* Go maps are functions with a finite domain. *)

EmptyMap == [x \in {} |-> ""]
MapPut(m, k, v) == [x \in (DOMAIN m) \cup {k} |-> IF x = k THEN v ELSE m[x]]
MapDel(m, k) == [x \in (DOMAIN m) \ {k} |-> m[x]]

\* the status code a backend answers with (TestService.Code)
CodeOf(o) == IF o = "s1" THEN StatusCreated ELSE StatusOK

----------------------------------------------------------------------------
VARIABLES
  inbounds,   \* Controller.inbounds: inbound name -> server id
  servers,    \* InboundServer: [inbound: published version id, open: listener]
  heap,       \* the Inbound objects ever published, by version id
  recorders,  \* the StatsRecorder objects ever allocated: events recorded
  client,     \* the http.Client shared by all versions of the inbound
  last,       \* history: the Controller call that returned last, its error
  req,        \* the client requests, each a task of the HTTP server
  hist,       \* history: for each version the call that produced it
  denied,     \* history: outbounds whose removal was rejected while active
  attempt,    \* Inbound.forward looked at alone: one attempt, its error, its Events
  recorder,   \* one StatsRecorder looked at alone: Once, mutex, current, prev, roller
  windows,    \* the Stats objects that recorder has allocated
  tasks,      \* the tasks calling Record, Read or Close on that recorder
  mutex,      \* Controller.mutex: the caller that holds it, 0 for none
  calls,      \* the callers of the Controller, each inside one mutating call
  dist,       \* one Distribution looked at alone: Items, Count, max
  sampled,    \* history: the values handed to Distribution.Sample, in order
  result,     \* what the last call of Distribution.Percentiles returned
  probe,      \* one Inbound handed to Validate or NewInboundServer, or unmarshalled
  closing     \* the caller of Controller.Close and where it is

vars ==
  <<inbounds, servers, heap, recorders, client, last, req, hist, denied,
    attempt, recorder, windows, tasks, mutex, calls, dist, sampled, result,
    probe, closing>>

\* the variables of the Controller, its servers and their requests
plane == <<inbounds, servers, heap, recorders, client, last, req, hist, denied>>
\* the variables of the StatsRecorder looked at alone
recVars == <<recorder, windows, tasks>>
\* the variables of the Controller calls taken statement by statement
muVars == <<mutex, calls>>
\* the variables of the Distribution looked at alone
distVars == <<dist, sampled, result>>
\* the variables of the parts that are looked at alone
apart == <<attempt, recVars, muVars, distVars, probe, closing>>
\* what a step of Inbound.forward looked at alone leaves unchanged
notForward == <<plane, recVars, muVars, distVars, probe, closing>>
\* what a step of the StatsRecorder looked at alone leaves unchanged
notRecorder == <<plane, attempt, muVars, distVars, probe, closing>>
\* the parts looked at alone that a Controller call leaves unchanged
notMutex == <<attempt, recVars, distVars, probe, closing>>
\* what a step of the Distribution looked at alone leaves unchanged
notDist == <<plane, attempt, recVars, muVars, probe, closing>>
\* what a call of Validate or NewInboundServer looked at alone leaves unchanged
notProbe == <<plane, attempt, recVars, muVars, distVars, closing>>

NoInbound == [Name |-> "nil"]
NoCall == [op |-> "none", inb |-> "", out |-> "", addr |-> "", err |-> ""]
\* a caller of the Controller before its call
IdleCaller ==
  [pc |-> "idle", call |-> NoCall,
   res |-> [err |-> "", copy |-> NoInbound, from |-> 0,
            base |-> EmptyMap]]

\* a StatsRecorder as new(StatsRecorder) leaves it: window 0 is the nil *Stats
ZeroRecorder ==
  [initialize |-> "new", mutex |-> 0, current |-> 0, prev |-> 0,
   roller |-> "none", rolls |-> 0]
\* new(Stats)
ZeroStats ==
  [Requests |-> 0, Errors |-> 0, Timeouts |-> 0,
   Responses |-> [c \in {} |-> 0]]
\* a task that has not called yet; `event` is nil for Read and Close
IdleTask ==
  [op |-> "-", pc |-> "idle", event |-> <<>>, stats |-> 0]

\* Inbound.forward before it starts; the error nil is the empty sequence
IdleAttempt == [pc |-> "idle", code |-> 0, err |-> <<>>, events |-> <<>>]

\* a slice of uint64 is a function from its indices, 0 to len - 1; the nil
\* slice has none
NilItems == [i \in {} |-> 0]
\* nothing returned yet by Percentiles
NoResult == [call |-> "none"]
\* no Inbound handed over yet
NoProbe == [pc |-> "idle"]
\* no caller inside Controller.Close
NotClosing == [pc |-> "idle", was |-> {}, seen |-> {}]

----------------------------------------------------------------------------
(* Inbound: the operations on one Inbound object (inbound.go). *)

\* new(StatsRecorder): nothing recorded, and no roller until the first Init
NewRecorder == [events |-> 0, roller |-> "none"]

\* an Inbound.Validate without its last test, that Active is a key of Outbound
ValidateAnyActive(inbound) ==
  IF inbound.Listen = "" THEN "missing listen host"
  ELSE IF DOMAIN inbound.Outbound = {} THEN "no outbound"
  ELSE IF inbound.Active = "" THEN "no active outbound"
  ELSE ""

\* Inbound.Validate: the error it returns ("" for nil)
Validate(inbound) ==
  IF inbound.Listen = "" THEN "missing listen host"
  ELSE IF DOMAIN inbound.Outbound = {} THEN "no outbound"
  ELSE IF inbound.Active = "" THEN "no active outbound"
  ELSE IF inbound.Active \notin DOMAIN inbound.Outbound
       THEN "active outbound doesn't exist"
  ELSE ""

\* Inbound.Validate: the object it leaves behind (an empty Name becomes Listen)
Validated(inbound) ==
  IF inbound.Name = "" THEN [inbound EXCEPT !.Name = inbound.Listen]
  ELSE inbound

\* Inbound.init, the fields set before the loop over Outbound
InitFields(inbound) ==
  [inbound EXCEPT
     !.Timeout = IF @ = 0 THEN DefaultInboundTimeout ELSE @,
     !.TimeoutCode = IF @ = 0 THEN StatusServiceUnavailable ELSE @,
     !.IdleConnections = IF @ > 0 THEN @ ELSE DefaultMaxIdleConnsPerHost]

\* Inbound.init, what it does to the shared http.Client: a new Transport when
\* IdleConnections is set (transports are numbered as they are built, 0 is
\* http.DefaultTransport), the Timeout when the client has none
InitClient(inbound, cl) ==
  [Transport |-> IF inbound.IdleConnections > 0 THEN cl.Transport + 1
                 ELSE cl.Transport,
   Timeout |-> IF cl.Timeout = 0
               THEN (IF inbound.Timeout = 0 THEN DefaultInboundTimeout
                     ELSE inbound.Timeout)
               ELSE cl.Timeout]

\* new(StatsRecorder): the identity of the recorder allocated for outbound
\* `o` of the Inbound object that is (or is to be) version `v`, by Inbound.init
\* or by Inbound.AddOutbound
RecorderId(v, o, by) == <<v, o, by>>
NoRecorder == <<0, "", "">>

\* Inbound.init, the loop "inbound.stats[outbound] = new(StatsRecorder)" run
\* to its end on the Inbound object that is to be version `v`
InitStats(inbound, v) ==
  [o \in (DOMAIN inbound.stats) \cup (DOMAIN inbound.Outbound) |->
     IF o \in DOMAIN inbound.Outbound THEN RecorderId(v, o, "init")
     ELSE inbound.stats[o]]

\* Inbound.Copy: a fresh object (zero sync.Once) with copies of both maps; the
\* StatsRecorders and the Client are shared with the original
Copy(inbound) ==
  [Name |-> inbound.Name,
   Listen |-> inbound.Listen,
   Active |-> inbound.Active,
   Outbound |-> [o \in DOMAIN inbound.Outbound |-> inbound.Outbound[o]],
   Timeout |-> inbound.Timeout,
   TimeoutCode |-> inbound.TimeoutCode,
   IdleConnections |-> inbound.IdleConnections,
   once |-> "new",
   stats |-> [o \in DOMAIN inbound.stats |-> inbound.stats[o]]]

\* an Inbound.AddOutbound that stores the address and no StatsRecorder
AddOutboundNoRecorder(inbound, outbound, addr, rec) ==
  [err |-> "",
   inbound |-> [inbound EXCEPT !.Outbound = MapPut(@, outbound, addr)]]

\* Inbound.AddOutbound; `rec` is the StatsRecorder it allocates
AddOutbound(inbound, outbound, addr, rec) ==
  [err |-> "",
   inbound |-> [inbound EXCEPT !.Outbound = MapPut(@, outbound, addr),
                               !.stats = MapPut(@, outbound, rec)]]

\* Inbound.RemoveOutbound without its "can't remove active outbound" test
RemoveOutboundActiveToo(inbound, outbound) ==
  IF outbound \notin DOMAIN inbound.Outbound
  THEN [err |-> "unknown outbound", inbound |-> inbound]
  ELSE [err |-> "",
        inbound |-> [inbound EXCEPT !.Outbound = MapDel(@, outbound),
                                    !.stats = MapDel(@, outbound)]]

\* an Inbound.RemoveOutbound that deletes the StatsRecorder and keeps the
\* address
RemoveOutboundStatsOnly(inbound, outbound) ==
  IF outbound \notin DOMAIN inbound.Outbound
  THEN [err |-> "unknown outbound", inbound |-> inbound]
  ELSE IF outbound = inbound.Active
  THEN [err |-> "can't remove active outbound", inbound |-> inbound]
  ELSE [err |-> "",
        inbound |-> [inbound EXCEPT !.stats = MapDel(@, outbound)]]

\* Inbound.RemoveOutbound
RemoveOutbound(inbound, outbound) ==
  IF outbound \notin DOMAIN inbound.Outbound
  THEN [err |-> "unknown outbound", inbound |-> inbound]
  ELSE IF outbound = inbound.Active
  THEN [err |-> "can't remove active outbound", inbound |-> inbound]
  ELSE [err |-> "",
        inbound |-> [inbound EXCEPT !.Outbound = MapDel(@, outbound),
                                    !.stats = MapDel(@, outbound)]]

\* Inbound.ActivateOutbound without its "unknown outbound" test
ActivateOutboundUnknownToo(inbound, outbound) ==
  [err |-> "", inbound |-> [inbound EXCEPT !.Active = outbound]]

\* an Inbound.ActivateOutbound that tests the name and leaves Active alone
ActivateOutboundNotSet(inbound, outbound) ==
  IF outbound \notin DOMAIN inbound.Outbound
  THEN [err |-> "unknown outbound", inbound |-> inbound]
  ELSE [err |-> "", inbound |-> inbound]

\* Inbound.ActivateOutbound
ActivateOutbound(inbound, outbound) ==
  IF outbound \notin DOMAIN inbound.Outbound
  THEN [err |-> "unknown outbound", inbound |-> inbound]
  ELSE [err |-> "", inbound |-> [inbound EXCEPT !.Active = outbound]]

\* Inbound.ReadOutboundStats: the recorder it reads (none for the error)
ReadOutboundStats(inbound, outbound) ==
  IF outbound \notin DOMAIN inbound.Outbound THEN NoRecorder
  ELSE inbound.stats[outbound]

\* Inbound.record: the recorders after one Event for `outbound`
Record(inbound, outbound, recs) ==
  [recs EXCEPT ![inbound.stats[outbound]].events = @ + 1,
               ![inbound.stats[outbound]].roller =
                  IF @ = "none" THEN "running" ELSE @]

----------------------------------------------------------------------------
(* InboundServer and Controller: construction. *)

\* the descriptors of the test suite: TestInboundServer's and TestController's
Descriptor(out, active) ==
  [Name |-> "bob", Listen |-> ":23456", Active |-> active, Outbound |-> out,
   Timeout |-> TestTimeout, TimeoutCode |-> 0, IdleConnections |-> 0,
   once |-> "new", stats |-> EmptyMap]

Descriptors ==
  { Descriptor([o \in {"s0"} |-> "h0"], "s0"),
    Descriptor([o \in {"s0", "s1"} |-> "h0"], "s0") }

NilClient == [Transport |-> 0, Timeout |-> 0]

\* NewInboundServer: Validate, Init, setInbound, Listen.  The Inbound is
\* initialised before it is published.
NewInboundServer(d) ==
  LET v == Validated(d)
      f == InitFields(v)
      s == InitStats(v, 1)
  IN [err |-> Validate(v),
      inbound |-> [f EXCEPT !.once = "done", !.stats = s],
      recs |-> [id \in {s[o] : o \in DOMAIN s} |-> NewRecorder],
      client |-> InitClient(v, NilClient)]

IdleReq ==
  [pc |-> "idle", ver |-> 0, todo |-> {}, active |-> "",
   att |-> [o \in OutNames |-> [n |-> 0, task |-> "-", st |-> "-"]],
   w |-> [n |-> 0, status |-> 0, from |-> "-", tasks |-> {}],
   seen |-> 0]

\* Controller.Start over one configured inbound
Init ==
  \E d \in Descriptors :
    LET s == NewInboundServer(d)
    IN /\ s.err = ""
       /\ heap = <<s.inbound>>
       /\ recorders = s.recs
       /\ client = s.client
       /\ servers = <<[inbound |-> 1, open |-> TRUE]>>
       /\ inbounds = [n \in {s.inbound.Name} |-> 1]
       /\ last = NoCall
       /\ req = [r \in ReqIds |-> IdleReq]
       /\ hist = <<[op |-> "start", out |-> "", parent |-> 0,
                    inherited |-> EmptyMap]>>
       /\ denied = {}
       /\ attempt = IdleAttempt
       /\ recorder = ZeroRecorder
       /\ windows = <<>>
       /\ tasks = [t \in TaskIds |-> IdleTask]
       /\ mutex = 0
       /\ calls = [c \in CallerIds |-> IdleCaller]
       /\ dist = [Items |-> NilItems, Count |-> 0, max |-> 0]
       /\ sampled = <<>>
       /\ result = NoResult
       /\ probe = NoProbe
       /\ closing = NotClosing

----------------------------------------------------------------------------
(* Controller and InboundServer: the mutating calls.  A call holds the     *)
(* Controller mutex from its first statement to its return, and all it     *)
(* writes before InboundServer.setInbound is its own copy: it is one step. *)

\* InboundServer.getInbound
GetInbound(s) == heap[servers[s].inbound]

\* InboundServer.AddOutbound up to setInbound: the error, the changed copy,
\* and (history) the version copied and its recorders at that time
ServerAddOutbound(s, out, addr) ==
  LET res == AddOutbound(Copy(GetInbound(s)), out, addr,
                         RecorderId(Len(heap) + 1, out, "add"))
  IN [err |-> res.err, copy |-> res.inbound,
      from |-> servers[s].inbound, base |-> GetInbound(s).stats]

\* InboundServer.RemoveOutbound up to setInbound
ServerRemoveOutbound(s, out) ==
  LET res == RemoveOutbound(Copy(GetInbound(s)), out)
  IN [err |-> res.err, copy |-> res.inbound,
      from |-> servers[s].inbound, base |-> GetInbound(s).stats]

\* InboundServer.ActivateOutbound up to setInbound
ServerActivateOutbound(s, out) ==
  LET res == ActivateOutbound(Copy(GetInbound(s)), out)
  IN [err |-> res.err, copy |-> res.inbound,
      from |-> servers[s].inbound, base |-> GetInbound(s).stats]

\* Controller: "server, ok := control.inbounds[inbound]; if !ok"
UnknownInbound ==
  [err |-> "unknown inbound", copy |-> NoInbound, from |-> 0,
   base |-> EmptyMap]

\* the recorders a new version takes over from the version it was copied
\* from: those of the outbounds the call does not add or remove
Inherited(c, res) ==
  [o \in ((DOMAIN res.base) \cap (DOMAIN res.copy.stats))
           \ (IF c.op = "activate" THEN {} ELSE {c.out}) |-> res.base[o]]

\* an InboundServer that stores its copy whether or not the change succeeded
PublishesFailedToo(res) == res.err # "unknown inbound"

\* InboundServer: "if err != nil { return err }" before setInbound
Publishes(res) == res.err = ""

\* InboundServer.setInbound, reached when the change succeeded; the return
\* of the call
Return(c, res) ==
  /\ IF Publishes(res)
     THEN /\ heap' = Append(heap, res.copy)
          /\ servers' = [servers EXCEPT
                           ![inbounds[c.inb]].inbound = Len(heap) + 1]
          /\ hist' = Append(hist, [op |-> c.op, out |-> c.out,
                                   parent |-> res.from,
                                   inherited |-> Inherited(c, res)])
     ELSE UNCHANGED <<heap, servers, hist>>
  /\ last' = [c EXCEPT !.err = res.err]
  /\ denied' = IF res.err = "can't remove active outbound"
               THEN denied \cup {c.out} ELSE denied

\* Controller.AddOutbound
ControllerAddOutbound(inb, out, addr) ==
  /\ LET c == [op |-> "add", inb |-> inb, out |-> out, addr |-> addr,
               err |-> ""]
     IN IF inb \in DOMAIN inbounds
        THEN /\ Return(c, ServerAddOutbound(inbounds[inb], out, addr))
             /\ recorders' = MapPut(recorders,
                                    RecorderId(Len(heap) + 1, out, "add"),
                                    NewRecorder)
        ELSE /\ Return(c, UnknownInbound)
             /\ UNCHANGED recorders
  /\ UNCHANGED <<inbounds, client, req, apart>>

\* Controller.RemoveOutbound
ControllerRemoveOutbound(inb, out) ==
  /\ LET c == [op |-> "remove", inb |-> inb, out |-> out, addr |-> "",
               err |-> ""]
     IN IF inb \in DOMAIN inbounds
        THEN Return(c, ServerRemoveOutbound(inbounds[inb], out))
        ELSE Return(c, UnknownInbound)
  /\ UNCHANGED <<inbounds, recorders, client, req, apart>>

\* Controller.ActivateOutbound
ControllerActivateOutbound(inb, out) ==
  /\ LET c == [op |-> "activate", inb |-> inb, out |-> out, addr |-> "",
               err |-> ""]
     IN IF inb \in DOMAIN inbounds
        THEN Return(c, ServerActivateOutbound(inbounds[inb], out))
        ELSE Return(c, UnknownInbound)
  /\ UNCHANGED <<inbounds, recorders, client, req, apart>>

----------------------------------------------------------------------------
(* Inbound.ServeHTTP: one client request.  The task of the request loads   *)
(* the published Inbound once (InboundServer.ServeHTTP), runs Init on it,  *)
(* reads the body, fans out, forwards to the active outbound itself and    *)
(* writes the response.                                                    *)

\* InboundServer.ServeHTTP: server.getInbound().  Requests are numbered in
\* the order in which they arrive.
Accept(r) ==
  /\ req[r].pc = "idle"
  /\ r > 1 => req[r - 1].pc # "idle"
  /\ \E s \in DOMAIN servers :
       /\ servers[s].open
       /\ req' = [req EXCEPT ![r].pc = "init",
                             ![r].ver = servers[s].inbound,
                             ![r].seen = Len(heap)]
  /\ UNCHANGED <<inbounds, servers, heap, recorders, client, last, hist, denied, apart>>

\* Inbound.Init: sync.Once.  The first task to arrive runs init, the fields
\* first; a task that finds init running waits; later ones pass.
InboundInit(r) ==
  /\ req[r].pc = "init"
  /\ LET v == req[r].ver
         inbound == heap[v]
     IN \/ /\ inbound.once = "done"
           /\ req' = [req EXCEPT ![r].pc = "serve"]
           /\ UNCHANGED <<heap, client>>
        \/ /\ inbound.once = "new"
           /\ client' = InitClient(inbound, client)
           /\ IF DOMAIN inbound.Outbound = {}
              THEN /\ heap' = [heap EXCEPT ![v] =
                                 [InitFields(inbound) EXCEPT !.once = "done"]]
                   /\ req' = [req EXCEPT ![r].pc = "serve"]
              ELSE /\ heap' = [heap EXCEPT ![v] =
                                 [InitFields(inbound) EXCEPT !.once = "running"]]
                   /\ req' = [req EXCEPT ![r].pc = "initloop",
                                         ![r].todo = DOMAIN inbound.Outbound]
  /\ UNCHANGED <<inbounds, servers, recorders, last, hist, denied, apart>>

\* Inbound.init, one turn of "for outbound := range inbound.Outbound": a new
\* StatsRecorder replaces the one of `o`; after the last turn Once is done
InboundInitLoop(r, o) ==
  /\ req[r].pc = "initloop"
  /\ o \in req[r].todo
  /\ LET v == req[r].ver
         final == req[r].todo = {o}
     IN /\ heap' = [heap EXCEPT
                      ![v].stats = MapPut(@, o, RecorderId(v, o, "init")),
                      ![v].once = IF final THEN "done" ELSE @]
        /\ req' = [req EXCEPT ![r].todo = @ \ {o},
                              ![r].pc = IF final THEN "serve" ELSE @]
        /\ recorders' = MapPut(recorders, RecorderId(v, o, "init"),
                               NewRecorder)
  /\ UNCHANGED <<inbounds, servers, client, last, hist, denied, apart>>

\* the outbounds ServeHTTP forwards to on a goroutine of their own
FanOut(inbound) == {o \in DOMAIN inbound.Outbound : o # inbound.Active}

\* the activeHost of ServeHTTP after its loop ("" when the loop set none)
ActiveHost(inbound) ==
  IF inbound.Active \in DOMAIN inbound.Outbound
  THEN inbound.Outbound[inbound.Active] ELSE ""

\* http.Error(writer, ..., code) on the task of the request
HttpError(w, code) ==
  [n |-> w.n + 1, status |-> code, from |-> "-",
   tasks |-> w.tasks \cup {"main"}]

\* the response of outbound `o` copied to the writer: headers, status, body
WriteResponse(w, o) ==
  [n |-> w.n + 1, status |-> CodeOf(o), from |-> o,
   tasks |-> w.tasks \cup {"main"}]

\* Inbound.forward up to Client.Do: one request attempt to `o` by `task`
Attempt(a, task) == [n |-> a.n + 1, task |-> task, st |-> "pending"]

\* a ServeHTTP that starts its goroutines before it looks at the error of
\* ReadAll
ServeHTTPFanOutFirst(r, bodyOK) ==
  /\ req[r].pc = "serve"
  /\ LET inbound == heap[req[r].ver]
         att == [o \in OutNames |->
                   IF o \in FanOut(inbound) THEN Attempt(req[r].att[o], "bg")
                   ELSE req[r].att[o]]
     IN IF ~bodyOK
        THEN req' = [req EXCEPT ![r].pc = "done", ![r].att = att,
                                ![r].w = HttpError(@, StatusBadRequest)]
        ELSE req' = [req EXCEPT
               ![r].att = att,
               ![r].pc = IF ActiveHost(inbound) = "" THEN "panic" ELSE "fwd"]
  /\ UNCHANGED <<inbounds, servers, heap, recorders, client, last, hist, denied, apart>>

\* ServeHTTP from ReadAll to the end of the loop over Outbound: 400 when the
\* body cannot be read; else one goroutine per non-active outbound, and the
\* panic when no activeHost was found
ServeHTTP(r, bodyOK) ==
  /\ req[r].pc = "serve"
  /\ LET inbound == heap[req[r].ver]
     IN IF ~bodyOK
        THEN req' = [req EXCEPT ![r].pc = "done",
                                ![r].w = HttpError(@, StatusBadRequest)]
        ELSE req' = [req EXCEPT
               ![r].att = [o \in OutNames |->
                             IF o \in FanOut(inbound) THEN Attempt(@[o], "bg")
                             ELSE @[o]],
               ![r].pc = IF ActiveHost(inbound) = "" THEN "panic" ELSE "fwd"]
  /\ UNCHANGED <<inbounds, servers, heap, recorders, client, last, hist, denied, apart>>

\* a ServeHTTP that loads the published Inbound again for its active choice
ActiveOfPublished(r) == heap[servers[1].inbound].Active

\* the outbound ServeHTTP forwards to itself: inbound.Active of its version
ActiveOf(r) == heap[req[r].ver].Active

\* ServeHTTP: inbound.forward(inbound.Active, ...) up to Client.Do
Forward(r) ==
  /\ req[r].pc = "fwd"
  /\ req' = [req EXCEPT ![r].pc = "wait",
                        ![r].active = ActiveOf(r),
                        ![r].att[ActiveOf(r)] = Attempt(@, "main")]
  /\ UNCHANGED <<inbounds, servers, heap, recorders, client, last, hist, denied, apart>>

\* a ServeHTTP that takes the result of whichever attempt answered
ResultOfAny(att, o) ==
  IF \E p \in DOMAIN att : att[p].task = "bg" /\ att[p].st = "resp"
  THEN "resp" ELSE att[o].st

\* the result ServeHTTP takes: that of its own forward call, to inbound.Active
Result(att, o) == att[o].st

\* a ServeHTTP that copies the response to the writer before testing err
RespondBeforeError(inbound, w, o, outcome) ==
  IF outcome = "resp" THEN WriteResponse(w, o)
  ELSE HttpError(WriteResponse(w, o), inbound.TimeoutCode)

\* what ServeHTTP writes once forward has returned for the active outbound
Respond(inbound, w, o, outcome) ==
  IF outcome = "resp" THEN WriteResponse(w, o)
  ELSE HttpError(w, inbound.TimeoutCode)

\* a ServeHTTP that joins its goroutines before it writes: the forward call
\* to the active outbound returns to a task that still waits for the others
ForwardDoneJoined(r, outcome) ==
  /\ req[r].pc = "wait"
  /\ \A p \in OutNames : req[r].att[p].st # "pending" \/ p = req[r].active
  /\ LET inbound == heap[req[r].ver]
         o == req[r].active
         att == [req[r].att EXCEPT ![o].st = outcome]
     IN /\ recorders' = Record(inbound, o, recorders)
        /\ req' = [req EXCEPT
                     ![r].pc = "done",
                     ![r].att = att,
                     ![r].w = Respond(inbound, @, o, Result(att, o))]
  /\ UNCHANGED <<inbounds, servers, heap, client, last, hist, denied, apart>>

\* the active attempt ends: forward records its Event and returns, and
\* ServeHTTP writes the response
ForwardDone(r, outcome) ==
  /\ req[r].pc = "wait"
  /\ LET inbound == heap[req[r].ver]
         o == req[r].active
         att == [req[r].att EXCEPT ![o].st = outcome]
     IN IF o \in DOMAIN inbound.stats
        THEN /\ recorders' = Record(inbound, o, recorders)
             /\ req' = [req EXCEPT
                          ![r].pc = "done",
                          ![r].att = att,
                          ![r].w = Respond(inbound, @, o, Result(att, o))]
        ELSE /\ req' = [req EXCEPT ![r].pc = "panic",
                                   ![r].att[o].st = "nostats"]
             /\ UNCHANGED recorders
  /\ UNCHANGED <<inbounds, servers, heap, client, last, hist, denied, apart>>

\* a forward that records in the Inbound the server has published at that
\* moment, not in the one the request was dispatched by
BackgroundDonePublished(r, o, outcome) ==
  /\ req[r].att[o].task = "bg"
  /\ req[r].att[o].st = "pending"
  /\ LET inbound == GetInbound(1)
     IN IF o \in DOMAIN inbound.stats
        THEN /\ recorders' = Record(inbound, o, recorders)
             /\ req' = [req EXCEPT ![r].att[o].st = outcome]
        ELSE /\ req' = [req EXCEPT ![r].att[o].st = "nostats"]
             /\ UNCHANGED recorders
  /\ UNCHANGED <<inbounds, servers, heap, client, last, hist, denied, apart>>

\* a background attempt ends: forward records its Event; the response is
\* dropped
BackgroundDone(r, o, outcome) ==
  /\ req[r].att[o].task = "bg"
  /\ req[r].att[o].st = "pending"
  /\ LET inbound == heap[req[r].ver]
     IN IF o \in DOMAIN inbound.stats
        THEN /\ recorders' = Record(inbound, o, recorders)
             /\ req' = [req EXCEPT ![r].att[o].st = outcome]
        ELSE /\ req' = [req EXCEPT ![r].att[o].st = "nostats"]
             /\ UNCHANGED recorders
  /\ UNCHANGED <<inbounds, servers, heap, client, last, hist, denied, apart>>

----------------------------------------------------------------------------
(* The administrative plane alone: every Controller call on an outbound,   *)
(* those that fail included.                                               *)

\* the operations so far: versions published and requests accepted
Ops == (Len(heap) - 1) + Cardinality({r \in ReqIds : req[r].pc # "idle"})

NextAdmin ==
  \/ \E inb \in InNames, out \in OutNames, addr \in Addrs :
       ControllerAddOutbound(inb, out, addr) /\ Len(heap') <= MaxOps + 1
  \/ \E inb \in InNames, out \in OutNames :
       ControllerRemoveOutbound(inb, out) /\ Len(heap') <= MaxOps + 1
  \/ \E inb \in InNames, out \in OutNames :
       ControllerActivateOutbound(inb, out) /\ Len(heap') <= MaxOps + 1

SpecAdmin == Init /\ [][NextAdmin]_vars

(* The data plane under reconfiguration: client requests served while      *)
(* Controller calls publish new versions.  A call that fails writes        *)
(* nothing that a request reads, so only the calls that succeed are taken. *)

Next ==
  \/ \E inb \in DOMAIN inbounds, out \in OutNames, addr \in Addrs :
       Ops < MaxOps /\ ControllerAddOutbound(inb, out, addr) /\ last'.err = ""
  \/ \E inb \in DOMAIN inbounds, out \in OutNames :
       Ops < MaxOps /\ ControllerRemoveOutbound(inb, out) /\ last'.err = ""
  \/ \E inb \in DOMAIN inbounds, out \in OutNames :
       Ops < MaxOps /\ ControllerActivateOutbound(inb, out) /\ last'.err = ""
  \/ \E r \in ReqIds : Ops < MaxOps /\ Accept(r)
  \/ \E r \in ReqIds : InboundInit(r)
  \/ \E r \in ReqIds, o \in OutNames : InboundInitLoop(r, o)
  \/ \E r \in ReqIds, b \in BOOLEAN : ServeHTTP(r, b)
  \/ \E r \in ReqIds : Forward(r)
  \/ \E r \in ReqIds, oc \in Outcomes : ForwardDone(r, oc)
  \/ \E r \in ReqIds, o \in OutNames, oc \in Outcomes : BackgroundDone(r, o, oc)

Spec == Init /\ [][Next]_vars

----------------------------------------------------------------------------
(* Properties. *)

\* the requests whose body was read and whose task has left ServeHTTP, by
\* its return or by its panic
Served(r) ==
  \/ req[r].pc = "panic"
  \/ req[r].pc = "done" /\ req[r].w.status # StatusBadRequest

\* the Inbound object a request works on
Serving(r) == heap[req[r].ver]

\* C1: in every Inbound version an InboundServer has published, whatever
\* calls succeeded or failed before, Outbound is non-empty and Active is one
\* of its keys.
C1_ActiveIsAnOutbound ==
  \A v \in DOMAIN heap :
    /\ DOMAIN heap[v].Outbound # {}
    /\ heap[v].Active \in DOMAIN heap[v].Outbound

\* versions published after a removal was rejected and after a remove and an
\* activate call succeeded
C1_Witness ==
  /\ denied # {}
  /\ \E v \in DOMAIN hist : hist[v].op = "remove"
  /\ \E v \in DOMAIN hist : hist[v].op = "activate"

\* C2: once a request whose body was read has been handled, every outbound
\* of the version that served it has received exactly one attempt, the active
\* one from the task of the request and the others from a background task,
\* and at no time has an outbound received two.
C2_OneAttemptEach ==
  \A r \in ReqIds :
    /\ \A o \in OutNames : req[r].att[o].n <= 1
    /\ Served(r) =>
         \A o \in DOMAIN Serving(r).Outbound :
           /\ req[r].att[o].n = 1
           /\ req[r].att[o].task = IF o = Serving(r).Active THEN "main"
                                   ELSE "bg"

\* C3: the response written to the client is a function of the outcome of
\* the active attempt: two requests served by equal configurations whose
\* active attempts ended alike have equal responses, whatever became of
\* their other attempts.
C3_ResponseOfActiveOnly ==
  \A r1, r2 \in ReqIds :
    ( /\ Served(r1) /\ Served(r2)
      /\ Serving(r1).Outbound = Serving(r2).Outbound
      /\ Serving(r1).Active = Serving(r2).Active
      /\ Serving(r1).TimeoutCode = Serving(r2).TimeoutCode
      /\ req[r1].att[Serving(r1).Active].st = req[r2].att[Serving(r2).Active].st )
    => /\ req[r1].w.n = req[r2].w.n
       /\ req[r1].w.status = req[r2].w.status
       /\ req[r1].w.from = req[r2].w.from

\* two requests of one version answered after the same active outcome, a
\* failure, while the background attempt of one was answered and that of the
\* other failed or is still pending
C3_Witness ==
  \E r1, r2 \in ReqIds : \E o \in OutNames :
    /\ req[r1].pc = "done" /\ req[r2].pc = "done"
    /\ req[r1].ver = req[r2].ver
    /\ req[r1].active # "" /\ req[r2].active # ""
    /\ req[r1].att[req[r1].active].st = "timeout"
    /\ req[r2].att[req[r2].active].st = "timeout"
    /\ req[r1].att[o].task = "bg" /\ req[r1].att[o].st = "resp"
    /\ req[r2].att[o].task = "bg" /\ req[r2].att[o].st \in {"pending", "error"}

\* C4: when the active attempt fails the client gets TimeoutCode, written
\* once, with nothing of an outbound's response in it, and no task but the
\* one of the request ever touches the writer.
C4_TimeoutCodeOnce ==
  \A r \in ReqIds :
    /\ req[r].w.tasks \subseteq {"main"}
    /\ ( req[r].pc = "done"
         /\ req[r].active # ""
         /\ req[r].att[req[r].active].st \in {"timeout", "error"} )
       => /\ req[r].w.n = 1
          /\ req[r].w.status = Serving(r).TimeoutCode
          /\ req[r].w.status = StatusServiceUnavailable
          /\ req[r].w.from = "-"

\* the active attempt failed after a background attempt of the request had
\* been answered
C4_Witness ==
  \E r \in ReqIds : \E o \in OutNames :
    /\ req[r].pc = "done"
    /\ req[r].active # ""
    /\ req[r].att[req[r].active].st = "error"
    /\ req[r].att[o].task = "bg" /\ req[r].att[o].st = "resp"

\* C5: a mutating call that returns an error publishes nothing: the
\* published reference, every Inbound object (Outbound, Active, stats map),
\* the recorders and the registry are what they were before the call.
C5_FailedCallPublishesNothing ==
  [][last'.err # "" =>
       /\ servers' = servers
       /\ heap' = heap
       /\ recorders' = recorders
       /\ inbounds' = inbounds
       /\ hist' = hist]_vars

\* a call on an unknown inbound has just failed, after a removal of the
\* active outbound and a call on an unknown outbound had failed and a change
\* had been published
C5_Witness ==
  /\ last.err = "unknown inbound"
  /\ denied # {}
  /\ Len(heap) >= 2

\* the calls that had returned when request `r` was accepted and that no
\* later such call has overridden: the last add or remove of each outbound
\* and the last activate
InEffect(r) ==
  {v \in 2..req[r].seen :
     ~ \E u \in (v + 1)..req[r].seen :
         IF hist[v].op = "activate" THEN hist[u].op = "activate"
         ELSE hist[u].op # "activate" /\ hist[u].out = hist[v].out}

\* C6: a request accepted after a successful call has returned is served by
\* a version that includes the change: it reaches an added outbound, does
\* not reach a removed one, and its response is that of the activated one.
C6_MutationVisible ==
  \A r \in ReqIds :
    req[r].pc # "idle" =>
      /\ req[r].ver = req[r].seen
      /\ \A v \in InEffect(r) :
           LET o == hist[v].out
           IN CASE hist[v].op = "add" ->
                     Served(r) => req[r].att[o].n = 1
                [] hist[v].op = "remove" ->
                     req[r].att[o].n = 0
                [] hist[v].op = "activate" ->
                     Served(r) =>
                       /\ req[r].att[o].task = "main"
                       /\ req[r].att[o].st = "resp" => req[r].w.from = o
                       /\ req[r].w.from \in {o, "-"}

\* the outbounds request `r` has dispatched to
Dispatched(r) == {o \in OutNames : req[r].att[o].n > 0}

\* C7: a request works on the one version it loaded, whatever is published
\* meanwhile: the outbound whose response it returns is one it dispatched
\* to, and its fan-out set and its active outbound are the Outbound and the
\* Active of one and the same published version.
C7_OneVersionPerRequest ==
  \A r \in ReqIds :
    /\ req[r].w.from # "-" => req[r].w.from \in Dispatched(r)
    /\ req[r].pc \in {"fwd", "wait", "done", "panic"} /\ req[r].w.status # StatusBadRequest =>
         \E v \in DOMAIN heap :
           /\ {o \in OutNames : req[r].att[o].task = "bg"} =
                (DOMAIN heap[v].Outbound) \ {heap[v].Active}
           /\ req[r].active # "" =>
                /\ req[r].active = heap[v].Active
                /\ Dispatched(r) = DOMAIN heap[v].Outbound

\* a request between its fan-out and its own forward call, while the
\* published version is a later one with another Active and another Outbound
C7_Witness ==
  \E r \in ReqIds :
    /\ req[r].pc = "fwd"
    /\ servers[1].inbound > req[r].ver
    /\ GetInbound(1).Active # Serving(r).Active
    /\ DOMAIN GetInbound(1).Outbound # DOMAIN Serving(r).Outbound

\* C8: no step writes Outbound, Active, the stats map, Timeout, TimeoutCode
\* or IdleConnections of an Inbound version that has been published.
C8_PublishedIsImmutable ==
  [][\A v \in DOMAIN heap :
       /\ heap'[v].Outbound = heap[v].Outbound
       /\ heap'[v].Active = heap[v].Active
       /\ heap'[v].stats = heap[v].stats
       /\ heap'[v].Timeout = heap[v].Timeout
       /\ heap'[v].TimeoutCode = heap[v].TimeoutCode
       /\ heap'[v].IdleConnections = heap[v].IdleConnections]_vars

\* C9: in every version a call has published, each outbound the call
\* neither added nor removed has the StatsRecorder it had in the version the
\* call copied, also after requests have been served by the new version.
C9_RecordersShared ==
  \A v \in 2..Len(heap) :
    \A o \in DOMAIN hist[v].inherited :
      /\ o \in DOMAIN heap[v].stats
      /\ heap[v].stats[o] = hist[v].inherited[o]

\* C10: RemoveOutbound fails for a name that is not a key of Outbound and
\* for the Active one, and succeeds for any other key, which is then gone
\* from the published Outbound.
C10_RemoveOutbound ==
  [][(last'.op = "remove" /\ last'.inb \in DOMAIN inbounds) =>
       LET s == inbounds[last'.inb]
           before == heap[servers[s].inbound]
           after == heap'[servers'[s].inbound]
           o == last'.out
       IN /\ o \notin DOMAIN before.Outbound => last'.err = "unknown outbound"
          /\ o = before.Active => last'.err = "can't remove active outbound"
          /\ last'.err # "" => after = before
          /\ (o \in DOMAIN before.Outbound /\ o # before.Active) =>
               /\ last'.err = ""
               /\ DOMAIN after.Outbound = (DOMAIN before.Outbound) \ {o}
               /\ after.Active = before.Active]_vars

\* the removal of an outbound was rejected while it was active, and the
\* version published last comes from a removal of that outbound
C10_Witness ==
  \E o \in denied :
    /\ last.op = "remove" /\ last.out = o /\ last.err = ""
    /\ hist[Len(hist)].op = "remove" /\ hist[Len(hist)].out = o
    /\ o \notin DOMAIN GetInbound(1).Outbound

\* C11: a successful RemoveOutbound closes the StatsRecorder of the outbound
\* it removes: once the call has returned, the roller of that recorder does
\* not run.
C11_RemoveClosesRecorder ==
  [][(Len(heap') > Len(heap) /\ hist'[Len(heap')].op = "remove") =>
       LET removed == heap[hist'[Len(heap')].parent].stats[hist'[Len(heap')].out]
       IN recorders'[removed].roller # "running"]_vars

\* C12: in every published Inbound version, at every moment, the stats map
\* has the keys of Outbound, no fewer and no more.
C12_StatsKeysAreOutboundKeys ==
  \A v \in DOMAIN heap : DOMAIN heap[v].stats = DOMAIN heap[v].Outbound

\* a version published by a removal that followed an add, while the init
\* loop of a request is half way through the stats map of a published version
C12_Witness ==
  /\ \E v \in DOMAIN hist : hist[v].op = "add"
  /\ \E v \in DOMAIN hist : hist[v].op = "remove"
  /\ \E r \in ReqIds :
       /\ req[r].pc = "initloop"
       /\ req[r].todo # DOMAIN Serving(r).Outbound

----------------------------------------------------------------------------
(* Inbound.forward and Inbound.error: one attempt and the Events it        *)
(* records.  An error is the sequence of its layers, outermost first: the  *)
(* wrappers *url.Error ("url") and *net.OpError (its Op, "dial" or "read") *)
(* and, last, the error they wrap: a syscall.Errno or an error string.     *)

Wrappers == {"url", "dial", "read"}
Leaves == {"ECONNREFUSED", "ETIMEDOUT",
           "use of closed network connection",
           "net/http: request canceled while waiting for connection",
           "EOF"}

RECURSIVE Wrapped(_)
\* the chains of exactly n wrappers
Wrapped(n) ==
  IF n = 0 THEN {<<>>}
  ELSE {<<w>> \o c : w \in Wrappers, c \in Wrapped(n - 1)}

\* the errors Client.Do and ReadAll return
Errors ==
  UNION {{c \o <<l>> : c \in Wrapped(n), l \in Leaves} : n \in 0..(MaxDepth - 1)}

TimeoutEvent == [Error |-> FALSE, Timeout |-> TRUE, Response |-> 0]
ErrorEvent == [Error |-> TRUE, Timeout |-> FALSE, Response |-> 0]
ResponseEvent(code) == [Error |-> FALSE, Timeout |-> FALSE, Response |-> code]

RECURSIVE InboundErrorTwice(_)
\* an Inbound.error that does not return after recording its dial timeout
InboundErrorTwice(err) ==
  IF Head(err) = "url" THEN InboundErrorTwice(Tail(err))
  ELSE IF Head(err) \in {"dial", "read"}
  THEN IF Head(err) = "dial" /\ Tail(err) = <<"ECONNREFUSED">>
       THEN <<TimeoutEvent>> \o InboundErrorTwice(Tail(err))
       ELSE InboundErrorTwice(Tail(err))
  ELSE IF Head(err) \in {"use of closed network connection",
                         "net/http: request canceled while waiting for connection"}
  THEN <<TimeoutEvent>>
  ELSE <<ErrorEvent>>

RECURSIVE InboundError(_)
\* Inbound.error: the Events it records for `err`, in order
InboundError(err) ==
  IF Head(err) = "url" THEN InboundError(Tail(err))
  ELSE IF Head(err) \in {"dial", "read"}
  THEN IF Head(err) = "dial" /\ Tail(err) = <<"ECONNREFUSED">>
       THEN <<TimeoutEvent>>
       ELSE InboundError(Tail(err))
  ELSE IF Head(err) \in {"use of closed network connection",
                         "net/http: request canceled while waiting for connection"}
  THEN <<TimeoutEvent>>
  ELSE <<ErrorEvent>>

\* Inbound.forward up to "resp, err := inbound.Client.Do(newReq)" and, when
\* err is not nil, to its return
ForwardSend ==
  /\ attempt.pc = "idle"
  /\ \/ \E err \in Errors :
          attempt' = [attempt EXCEPT !.pc = "returned", !.err = err,
                                     !.events = @ \o InboundError(err)]
     \/ \E code \in {StatusOK, StatusCreated} :
          attempt' = [attempt EXCEPT !.pc = "recv", !.code = code]
  /\ UNCHANGED notForward

\* Inbound.forward from "respBody, err := ioutil.ReadAll(resp.Body)" to its
\* return
ForwardRecv ==
  /\ attempt.pc = "recv"
  /\ \/ \E err \in Errors :
          attempt' = [attempt EXCEPT !.pc = "returned", !.err = err,
                                     !.events = @ \o InboundError(err)]
     \/ attempt' = [attempt EXCEPT
                      !.pc = "returned",
                      !.events = Append(@, ResponseEvent(attempt.code))]
  /\ UNCHANGED notForward

NextForward == ForwardSend \/ ForwardRecv

SpecForward == Init /\ [][NextForward]_vars

\* C13: an attempt that has returned has recorded exactly one Event, be it
\* after a response, a send failure or a failure to read the body, however
\* deep the error is wrapped; and no attempt ever records two.
C13_OneEventPerAttempt ==
  /\ Len(attempt.events) <= 1
  /\ attempt.pc = "returned" =>
       /\ Len(attempt.events) = 1
       /\ attempt.err = <<>> => attempt.events[1] = ResponseEvent(attempt.code)
       /\ attempt.err # <<>> =>
            /\ attempt.events[1].Response = 0
            /\ attempt.events[1].Error # attempt.events[1].Timeout

\* the body of a response could not be read, with an error wrapped twice:
\* a url.Error around the net.OpError of a refused dial
C13_Witness ==
  /\ attempt.pc = "returned"
  /\ attempt.code # 0
  /\ attempt.err = <<"url", "dial", "ECONNREFUSED">>
  /\ attempt.events = <<TimeoutEvent>>

----------------------------------------------------------------------------
(* StatsRecorder: one recorder, the tasks that call Record, Read and Close *)
(* on it, and its roller (stats.go).                                       *)

\* the Events handed to Record: those of Inbound.forward, and one with both
\* flags set
BothEvent == [Error |-> TRUE, Timeout |-> TRUE, Response |-> 0]
RecordEvents ==
  {TimeoutEvent, ErrorEvent, BothEvent, ResponseEvent(StatusOK)}

\* a mutex whose Lock never waits
MutexFreeAlways(rec) == TRUE

\* recorder.mutex.Lock() returns when no one holds the mutex
MutexFree(rec) == rec.mutex = 0

\* StatsRecorder.init: prev and current are new(Stats), shutdownC is made,
\* go recorder.run(); `w` are the windows allocated so far
RecorderInit(rec, w) ==
  [rec EXCEPT !.initialize = "done", !.prev = Len(w) + 1,
              !.current = Len(w) + 2, !.roller = "running"]

\* a tick that keeps the current window as the new current one
RolledInPlace(rec, w) ==
  [rec EXCEPT !.prev = rec.current, !.rolls = @ + 1]

\* StatsRecorder.run, "case <-tick.C": prev = current; current = new(Stats)
Rolled(rec, w) ==
  [rec EXCEPT !.prev = rec.current, !.current = Len(w) + 1, !.rolls = @ + 1]

\* StatsRecorder.Record: the counter it increments after Requests
Counted(stats, event) ==
  IF event.Error THEN [stats EXCEPT !.Errors = @ + 1]
  ELSE IF event.Timeout THEN [stats EXCEPT !.Timeouts = @ + 1]
  ELSE [stats EXCEPT !.Responses =
          IF event.Response \in DOMAIN @
          THEN [@ EXCEPT ![event.Response] = @ + 1]
          ELSE MapPut(@, event.Response, 1)]

\* a task calls Record(event), Read() or Close(): recorder.Init() first, by
\* sync.Once.  Tasks are numbered in the order of their calls.
StatsInit(t, op, event) ==
  /\ tasks[t].pc = "idle"
  /\ t > 1 => tasks[t - 1].pc # "idle"
  /\ tasks' = [tasks EXCEPT ![t] =
                 [op |-> op, event |-> event, stats |-> 0,
                  pc |-> IF op = "close" THEN "send" ELSE "lock"]]
  /\ IF recorder.initialize = "new"
     THEN /\ recorder' = RecorderInit(recorder, windows)
          /\ windows' = windows \o <<ZeroStats, ZeroStats>>
     ELSE UNCHANGED <<recorder, windows>>
  /\ UNCHANGED <<notRecorder>>

\* Record: mutex.Lock(); stats := recorder.current
RecordLock(t) ==
  /\ tasks[t].op = "record" /\ tasks[t].pc = "lock"
  /\ MutexFree(recorder)
  /\ recorder' = [recorder EXCEPT !.mutex = t]
  /\ tasks' = [tasks EXCEPT ![t].pc = "requests",
                            ![t].stats = recorder.current]
  /\ UNCHANGED <<notRecorder, windows>>

\* Record: stats.Requests++
RecordRequests(t) ==
  /\ tasks[t].pc = "requests"
  /\ windows' = [windows EXCEPT ![tasks[t].stats].Requests = @ + 1]
  /\ tasks' = [tasks EXCEPT ![t].pc = "kind"]
  /\ UNCHANGED <<notRecorder, recorder>>

\* a Record that waits for the Controller mutex while it holds the mutex of
\* the recorder
RecordKindUnderControl(t) ==
  /\ tasks[t].pc = "kind"
  /\ mutex = 0
  /\ windows' = [windows EXCEPT ![tasks[t].stats] = Counted(@, tasks[t].event)]
  /\ recorder' = [recorder EXCEPT !.mutex = 0]
  /\ tasks' = [tasks EXCEPT ![t].pc = "done", ![t].event = <<>>,
                            ![t].stats = 0]
  /\ UNCHANGED <<notRecorder>>

\* Record: Errors++, Timeouts++ or Responses[code]++; mutex.Unlock()
RecordKind(t) ==
  /\ tasks[t].pc = "kind"
  /\ windows' = [windows EXCEPT ![tasks[t].stats] = Counted(@, tasks[t].event)]
  /\ recorder' = [recorder EXCEPT !.mutex = 0]
  /\ tasks' = [tasks EXCEPT ![t].pc = "done", ![t].event = <<>>,
                            ![t].stats = 0]
  /\ UNCHANGED <<notRecorder>>

\* Read: mutex.Lock(); stats = recorder.prev
ReadLock(t) ==
  /\ tasks[t].op = "read" /\ tasks[t].pc = "lock"
  /\ MutexFree(recorder)
  /\ recorder' = [recorder EXCEPT !.mutex = t]
  /\ tasks' = [tasks EXCEPT ![t].pc = "unlock", ![t].stats = recorder.prev]
  /\ UNCHANGED <<notRecorder, windows>>

\* Read: mutex.Unlock(); return
ReadUnlock(t) ==
  /\ tasks[t].pc = "unlock"
  /\ recorder' = [recorder EXCEPT !.mutex = 0]
  /\ tasks' = [tasks EXCEPT ![t].pc = "done"]
  /\ UNCHANGED <<notRecorder, windows>>

\* a roller that does not take the mutex for its tick
RollUnlocked ==
  /\ recorder.roller = "running"
  /\ recorder.rolls < MaxRolls
  /\ recorder' = Rolled(recorder, windows)
  /\ windows' = Append(windows, ZeroStats)
  /\ UNCHANGED <<notRecorder, tasks>>

\* run, "case <-tick.C", under the mutex
Roll ==
  /\ recorder.roller = "running"
  /\ recorder.rolls < MaxRolls
  /\ MutexFree(recorder)
  /\ recorder' = Rolled(recorder, windows)
  /\ windows' = Append(windows, ZeroStats)
  /\ UNCHANGED <<notRecorder, tasks>>

\* run, "case <-recorder.shutdownC": the roller takes the value that Close
\* of task t is sending on the unbuffered channel, and returns; Close returns
Shutdown(t) ==
  /\ recorder.roller = "running"
  /\ tasks[t].pc = "send"
  /\ recorder' = [recorder EXCEPT !.roller = "stopped"]
  /\ tasks' = [tasks EXCEPT ![t].pc = "done"]
  /\ UNCHANGED <<notRecorder, windows>>

NextRecorder ==
  \/ \E t \in TaskIds, e \in RecordEvents : StatsInit(t, "record", e)
  \/ \E t \in TaskIds : StatsInit(t, "read", <<>>)
  \/ \E t \in TaskIds : StatsInit(t, "close", <<>>)
  \/ \E t \in TaskIds : RecordLock(t)
  \/ \E t \in TaskIds : RecordRequests(t)
  \/ \E t \in TaskIds : RecordKind(t)
  \/ \E t \in TaskIds : ReadLock(t)
  \/ \E t \in TaskIds : ReadUnlock(t)
  \/ Roll
  \/ \E t \in TaskIds : Shutdown(t)

\* the recorder and the attempt looked at alone sit beside the inbound of
\* TestInboundServer, which takes no step
InitAlone == Init /\ Cardinality(DOMAIN heap[1].Outbound) = 1

SpecRecorder == InitAlone /\ [][NextRecorder]_vars

RECURSIVE SumOf(_, _)
\* the sum of the counters of map `m` over the keys `keys`
SumOf(m, keys) ==
  IF keys = {} THEN 0
  ELSE LET k == CHOOSE x \in keys : TRUE
       IN m[k] + SumOf(m, keys \ {k})

\* Requests = Errors + Timeouts + sum of Responses
Balanced(stats) ==
  stats.Requests =
    stats.Errors + stats.Timeouts + SumOf(stats.Responses, DOMAIN stats.Responses)

\* C14: every Record call adds one to Requests and one to exactly one of
\* Errors, Timeouts and Responses[code]: every window that no Record call
\* is half way through is balanced, the window that Read returns is balanced
\* at every moment, and the Requests of all windows count the Record calls.
C14_WindowsBalanced ==
  /\ \A i \in DOMAIN windows :
       (~ \E t \in TaskIds : tasks[t].pc = "kind" /\ tasks[t].stats = i)
         => Balanced(windows[i])
  /\ recorder.prev # 0 => Balanced(windows[recorder.prev])
  /\ SumOf([i \in DOMAIN windows |-> windows[i].Requests], DOMAIN windows) =
       Cardinality({t \in TaskIds :
                      tasks[t].op = "record" /\ tasks[t].pc \in {"kind", "done"}})

\* a Record call is between its two increments while another waits for the
\* mutex, after a roll that made a window with an Error counted for an Event
\* with both flags the result of Read
C14_Witness ==
  /\ recorder.rolls >= 1
  /\ windows[recorder.prev].Errors = 1
  /\ \E t, u \in TaskIds :
       /\ tasks[t].pc = "kind"
       /\ tasks[u].op = "record" /\ tasks[u].pc = "lock"

\* C15: Read never returns the window Record writes to: prev and current
\* are different windows from init on, roller stopped or not; no Record call
\* holds the window that Read returns; and no step changes a window that a
\* Read call has returned.
C15_ReadWindowNotWritten ==
  /\ [](recorder.initialize = "done" =>
          /\ recorder.prev # recorder.current
          /\ \A t \in TaskIds :
               tasks[t].pc \in {"requests", "kind"} =>
                 tasks[t].stats # recorder.prev)
  /\ [][\A t \in TaskIds :
          (tasks[t].op = "read" /\ tasks[t].pc \in {"unlock", "done"}) =>
            windows'[tasks[t].stats] = windows[tasks[t].stats]]_vars

\* a Read call has returned a window with an Event in it, which is still
\* the result of Read, and a Record call has counted an Event since the roll
C15_Witness ==
  /\ recorder.initialize = "done"
  /\ windows[recorder.current].Requests >= 1
  /\ \E t \in TaskIds :
       /\ tasks[t].op = "read" /\ tasks[t].pc = "done"
       /\ tasks[t].stats = recorder.prev
       /\ windows[tasks[t].stats].Requests >= 1

\* C16: every call to Close returns: whenever a Close call is sending on
\* shutdownC, the roller is running and can take what it sends.
C16_CloseReturns ==
  \A t \in TaskIds : tasks[t].pc = "send" => recorder.roller = "running"

----------------------------------------------------------------------------
(* Controller.AddOutbound, RemoveOutbound and ActivateOutbound taken       *)
(* statement by statement, with several callers inside at once.            *)

\* a Controller whose mutex.Lock never waits
ControlMutexFreeAlways(m) == TRUE

\* control.mutex.Lock() returns when no caller holds the mutex
ControlMutexFree(m) == m = 0

\* a caller enters AddOutbound, RemoveOutbound or ActivateOutbound and
\* reaches control.mutex.Lock()
CallStart(k, op, inb, out, addr) ==
  /\ calls[k].pc = "idle"
  /\ calls' = [calls EXCEPT ![k].pc = "lock",
                            ![k].call = [op |-> op, inb |-> inb, out |-> out,
                                         addr |-> addr, err |-> ""]]
  /\ UNCHANGED <<plane, notMutex, mutex>>

\* control.mutex.Lock()
CallLock(k) ==
  /\ calls[k].pc = "lock"
  /\ ControlMutexFree(mutex)
  /\ mutex' = k
  /\ calls' = [calls EXCEPT ![k].pc = "locked"]
  /\ UNCHANGED <<plane, notMutex>>

\* the lookup in control.inbounds and the InboundServer call up to
\* setInbound: getInbound().Copy() and the change of the copy
CallCopy(k) ==
  /\ calls[k].pc = "locked"
  /\ LET c == calls[k].call
         res == IF c.inb \notin DOMAIN inbounds THEN UnknownInbound
                ELSE IF c.op = "add"
                THEN ServerAddOutbound(inbounds[c.inb], c.out, c.addr)
                ELSE IF c.op = "remove"
                THEN ServerRemoveOutbound(inbounds[c.inb], c.out)
                ELSE ServerActivateOutbound(inbounds[c.inb], c.out)
     IN calls' = [calls EXCEPT ![k].pc = "copied", ![k].res = res]
  /\ UNCHANGED <<plane, notMutex, mutex>>

\* setInbound when the change succeeded, the return of the call and the
\* deferred control.mutex.Unlock()
CallReturn(k) ==
  /\ calls[k].pc = "copied"
  /\ Return(calls[k].call, calls[k].res)
  /\ recorders' =
       IF calls[k].call.op = "add" /\ calls[k].res.err = ""
       THEN MapPut(recorders, calls[k].res.copy.stats[calls[k].call.out],
                   NewRecorder)
       ELSE recorders
  /\ mutex' = 0
  /\ calls' = [calls EXCEPT ![k].pc = "done",
                            ![k].call.err = calls[k].res.err]
  /\ UNCHANGED <<inbounds, client, req, notMutex>>

NextMutex ==
  \/ \E k \in CallerIds, inb \in InNames, out \in OutNames, addr \in Addrs :
       CallStart(k, "add", inb, out, addr)
  \/ \E k \in CallerIds, inb \in InNames, out \in OutNames :
       CallStart(k, "remove", inb, out, "")
  \/ \E k \in CallerIds, inb \in InNames, out \in OutNames :
       CallStart(k, "activate", inb, out, "")
  \/ \E k \in CallerIds : CallLock(k)
  \/ \E k \in CallerIds : CallCopy(k)
  \/ \E k \in CallerIds : CallReturn(k)

SpecMutex == Init /\ [][NextMutex]_vars

\* C17: no update is lost: every published version is the version published
\* just before it with the one change of the call that published it, so the
\* published Inbound is the result of the successful calls applied one after
\* another, in the order in which they published.
C17_NoLostUpdate ==
  /\ servers[1].inbound = Len(heap)
  /\ \A v \in 2..Len(heap) :
       LET new == heap[v]
           old == heap[v - 1]
           o == hist[v].out
       IN /\ hist[v].parent = v - 1
          /\ CASE hist[v].op = "add" ->
                    /\ DOMAIN new.Outbound = (DOMAIN old.Outbound) \cup {o}
                    /\ \A p \in (DOMAIN old.Outbound) \ {o} :
                         new.Outbound[p] = old.Outbound[p]
                    /\ new.Active = old.Active
               [] hist[v].op = "remove" ->
                    /\ new.Outbound = MapDel(old.Outbound, o)
                    /\ new.Active = old.Active
               [] hist[v].op = "activate" ->
                    /\ new.Outbound = old.Outbound
                    /\ new.Active = o

\* two callers were inside AddOutbound for different names at the same
\* time, the second waiting for the mutex; both have returned without error
\* and both names are in the published Outbound
C17_Witness ==
  /\ \A k \in {1, 2} : calls[k].pc = "done" /\ calls[k].call.err = ""
                       /\ calls[k].call.op = "add"
  /\ calls[1].call.out # calls[2].call.out
  /\ Len(heap) = 3
  /\ {calls[1].call.out, calls[2].call.out} \subseteq DOMAIN GetInbound(1).Outbound

----------------------------------------------------------------------------
(* Controller.AddInbound and Controller.RemoveInbound: the registry.  Each *)
(* call holds the Controller mutex from its first statement to its return *)
(* and is one step.                                                        *)

\* the descriptors handed to AddInbound: a name or none, an address that is
\* the one of "bob", the wildcard port ":0" or none, and outbounds that
\* Validate accepts or rejects
AddDescriptors ==
  {[d EXCEPT !.Name = n, !.Listen = l] :
     n \in {"bob", "i1", ""},
     l \in {":23456", ":0", ""},
     d \in {Descriptor([o \in {"s0"} |-> "h0"], "s0"),
            Descriptor([o \in {"s0"} |-> "h0"], "s1")}}

\* the names handed to RemoveInbound
RemoveNames == {"bob", "i1", ":0", "nobody"}

\* net.Listen("tcp", addr) fails when a listener that is still open was
\* bound to addr; ":0" asks for a port of the system's choice
InUse(addr) ==
  /\ addr # ":0"
  /\ \E s \in DOMAIN servers :
       servers[s].open /\ heap[servers[s].inbound].Listen = addr

\* NewInboundServer for the Inbound object that is to be version v: the
\* error of Validate or of net.Listen, and the initialised Inbound
NewInboundServerOn(d, v) ==
  LET e == Validate(Validated(d))
      f == InitFields(Validated(d))
  IN [err |-> IF e # "" THEN e
              ELSE IF InUse(Validated(d).Listen) THEN "unable to listen"
              ELSE "",
      inbound |-> [f EXCEPT !.once = "done", !.stats = InitStats(f, v)]]

\* an InboundServer.Close that leaves the listener open
NotClosed(server) == server

\* InboundServer.Close: server.listener.Close()
Closed(server) == [server EXCEPT !.open = FALSE]

\* control.inbounds is nil once Close has returned: a nil map has no
\* entries, and storing into it is a run-time panic
NilRegistry == closing.pc = "done"

\* Controller.AddInbound
ControllerAddInbound(d) ==
  /\ LET c == [op |-> "addinbound", inb |-> d.Name, out |-> "",
               addr |-> d.Listen, err |-> ""]
         v == Len(heap) + 1
         s == NewInboundServerOn(d, v)
     IN IF d.Name \in DOMAIN inbounds
        THEN /\ last' = [c EXCEPT !.err = "already exists"]
             /\ UNCHANGED <<inbounds, servers, heap, recorders, hist>>
        ELSE IF s.err # ""
        THEN /\ last' = [c EXCEPT !.err = s.err]
             /\ UNCHANGED <<inbounds, servers, heap, recorders, hist>>
        ELSE /\ heap' = Append(heap, s.inbound)
             /\ hist' = Append(hist, [op |-> "addinbound", out |-> "",
                                      parent |-> 0, inherited |-> EmptyMap])
             /\ recorders' =
                  [id \in (DOMAIN recorders) \cup
                          {s.inbound.stats[o] : o \in DOMAIN s.inbound.stats} |->
                     IF id \in DOMAIN recorders THEN recorders[id]
                     ELSE NewRecorder]
             /\ servers' = Append(servers, [inbound |-> v, open |-> TRUE])
             /\ IF NilRegistry
                THEN /\ last' = [c EXCEPT
                                   !.err = "panic: assignment to entry in nil map"]
                     /\ UNCHANGED inbounds
                ELSE /\ last' = c
                     /\ inbounds' = MapPut(inbounds, s.inbound.Name,
                                           Len(servers) + 1)
  /\ UNCHANGED <<client, req, denied, apart>>

\* Controller.RemoveInbound
ControllerRemoveInbound(inb) ==
  /\ LET c == [op |-> "removeinbound", inb |-> inb, out |-> "", addr |-> "",
               err |-> ""]
     IN IF inb \notin DOMAIN inbounds
        THEN /\ last' = [c EXCEPT !.err = "unknown inbound"]
             /\ UNCHANGED <<inbounds, servers>>
        ELSE /\ last' = c
             /\ servers' = [servers EXCEPT ![inbounds[inb]] = Closed(@)]
             /\ inbounds' = MapDel(inbounds, inb)
  /\ UNCHANGED <<heap, recorders, client, req, hist, denied, apart>>

NextRegistry ==
  \/ \E d \in AddDescriptors :
       ControllerAddInbound(d) /\ Len(servers') <= MaxInbounds + 1
  \/ \E inb \in RemoveNames : ControllerRemoveInbound(inb)

SpecRegistry == InitAlone /\ [][NextRegistry]_vars

\* the name an inbound goes by: Validate gives an inbound without a Name
\* its Listen address as Name
NameOf(name, listen) == IF name = "" THEN listen ELSE name

\* C18: AddInbound rejects an inbound whose name is in the registry, and a
\* rejected call, whatever the reason, leaves the registry and the servers
\* as they were; a call that is not rejected starts one server and inserts
\* it under the inbound's name, next to the entries that were there.
C18_AddInbound ==
  [][last'.op = "addinbound" =>
       LET name == NameOf(last'.inb, last'.addr)
       IN /\ name \in DOMAIN inbounds => last'.err # ""
          /\ last'.err # "" =>
               /\ inbounds' = inbounds
               /\ servers' = servers
               /\ heap' = heap
          /\ (last'.err = "" /\ <<inbounds, servers>>' # <<inbounds, servers>>) =>
               /\ Len(servers') = Len(servers) + 1
               /\ servers'[Len(servers')].open
               /\ \A s \in DOMAIN servers : servers'[s] = servers[s]
               /\ DOMAIN inbounds' = (DOMAIN inbounds) \cup {name}
               /\ inbounds'[name] = Len(servers')
               /\ \A n \in DOMAIN inbounds : inbounds'[n] = inbounds[n]]_vars

\* the address a server listens on
ListenOf(s) == heap[servers[s].inbound].Listen

\* C19: RemoveInbound rejects a name that is not registered and changes
\* nothing; for a registered name it closes the listener of that server and
\* removes the entry and nothing else, so that the name is unknown from then
\* on, the other servers stay as they were, and the address is free for the
\* name to be added again.
C19_RemoveInbound ==
  [][last'.op = "removeinbound" =>
       IF last'.inb \notin DOMAIN inbounds
       THEN /\ last'.err = "unknown inbound"
            /\ inbounds' = inbounds
            /\ servers' = servers
       ELSE LET s == inbounds[last'.inb]
            IN /\ last'.err = ""
               /\ ~ servers'[s].open
               /\ inbounds' = MapDel(inbounds, last'.inb)
               /\ \A u \in (DOMAIN servers) \ {s} : servers'[u] = servers[u]
               /\ heap' = heap
               /\ last'.inb \notin DOMAIN inbounds'
               /\ ~ \E u \in DOMAIN servers' :
                      /\ servers'[u].open
                      /\ heap'[servers'[u].inbound].Listen = ListenOf(s)
                      /\ ListenOf(s) # ":0"]_vars

\* "bob" was removed, which closed its server, and has been added again on
\* the same address, next to an inbound that was there all along
C19_Witness ==
  /\ ~ servers[1].open
  /\ "bob" \in DOMAIN inbounds
  /\ servers[inbounds["bob"]].open
  /\ ListenOf(inbounds["bob"]) = ListenOf(1)
  /\ \E n \in DOMAIN inbounds : n # "bob" /\ inbounds[n] < inbounds["bob"]

\* C20: whatever add, remove and activate calls are interleaved with the
\* requests, no request whose body was read crashes its handler, and the
\* response of each is, written once, either the response of the outbound
\* that is Active in a published version or a TimeoutCode response.
C20_ActiveResponseOrTimeoutCode ==
  \A r \in ReqIds :
    /\ req[r].pc # "panic"
    /\ Served(r) =>
         /\ req[r].w.n = 1
         /\ \/ /\ req[r].w.from = "-"
               /\ req[r].w.status = Serving(r).TimeoutCode
            \/ \E v \in DOMAIN heap :
                 /\ req[r].w.from = heap[v].Active
                 /\ req[r].w.status = CodeOf(heap[v].Active)

\* the outbounds of the first version that no call has added again or removed
Untouched ==
  {y \in DOMAIN heap[1].Outbound :
     ~ \E v \in DOMAIN hist : hist[v].op \in {"add", "remove"} /\ hist[v].out = y}

\* C21: while no call removes or adds outbound y again, every Event of y is
\* recorded in the StatsRecorder that ReadOutboundStats reads for y in the
\* published Inbound, so that the windows read there add up to the requests
\* served: no Event of y goes to a recorder that the readers cannot reach.
C21_NoEventLostToReaders ==
  [][\A y \in Untouched : \A id \in DOMAIN recorders :
       (id[2] = y /\ recorders'[id].events = recorders[id].events + 1) =>
         id = ReadOutboundStats(GetInbound(1), y)]_vars

----------------------------------------------------------------------------
(* Distribution: reservoir sampling of latencies (distribution.go).        *)

\* the values sampled
Values == {1, 2, 3}
\* the lengths of the Items a caller allocates itself
Capacities == {2, 3}

\* len(items)
LenOf(items) == Cardinality(DOMAIN items)

\* make([]uint64, n)
MakeItems(n) == [i \in 0..(n - 1) |-> 0]

\* a / b rounded to the nearest integer, to the even one of two equally near:
\* the rounding of float32 arithmetic
RoundHalfEven(a, b) ==
  LET q == a \div b
      r == a % b
  IN IF 2 * r < b THEN q
     ELSE IF 2 * r > b THEN q + 1
     ELSE IF q % 2 = 0 THEN q ELSE q + 1

RECURSIVE ShiftUp(_, _, _)
\* the least k from which a * 2^k is at least low
ShiftUp(a, low, k) == IF a >= low THEN k ELSE ShiftUp(2 * a, low, k + 1)

RECURSIVE ShiftDown(_, _)
\* the least j from which a / 2^j has no more than the 24 bits of a float32
ShiftDown(a, j) == IF a \div (2 ^ j) < 2 ^ 24 THEN j ELSE ShiftDown(a, j + 1)

\* Percentiles, "int(float32(n)/100*float32(p))": the quotient is m / 2^k
\* with m of 24 bits, the product is M * 2^j / 2^k with M of 24 bits, and
\* the conversion to int drops the fraction
PercentileIndex(n, p) ==
  IF n = 0 THEN 0
  ELSE LET k == ShiftUp(n, 100 * (2 ^ 23), 0)
           m == RoundHalfEven(n * (2 ^ k), 100)
           j == ShiftDown(m * p, 0)
           M == RoundHalfEven(m * p, 2 ^ j)
       IN IF j >= k THEN M * (2 ^ (j - k)) ELSE M \div (2 ^ (k - j))

RECURSIVE Insert(_, _)
\* x put into the ascending sequence s
Insert(x, s) ==
  IF s = <<>> THEN <<x>>
  ELSE IF x <= Head(s) THEN <<x>> \o s
  ELSE <<Head(s)>> \o Insert(x, Tail(s))

RECURSIVE Sorted(_)
\* sort.Sort(sampleArray(items))
Sorted(s) == IF s = <<>> THEN <<>> ELSE Insert(Head(s), Sorted(Tail(s)))

\* Distribution.init
DistInit(d) ==
  [d EXCEPT !.Items = IF @ = NilItems THEN MakeItems(DefaultDistributionSize)
                      ELSE @]

\* the caller allocates Items itself: &Distribution{Items: make([]uint64, n)}
Preallocate(n) ==
  /\ dist.Items = NilItems /\ dist.Count = 0
  /\ result = NoResult
  /\ dist' = [dist EXCEPT !.Items = MakeItems(n)]
  /\ UNCHANGED <<notDist, sampled, result>>

\* Distribution.Sample: init, max, Count++, then the store at Items[Count]
\* or, from Count = len(Items) on, at the index i that rand.Int63n(Count)
\* draws when i < len(Items)
Sample(value) ==
  /\ LET d == DistInit(dist)
         count == d.Count + 1
         e == [d EXCEPT !.max = IF value > @ THEN value ELSE @,
                        !.Count = count]
     IN IF count < LenOf(d.Items)
        THEN dist' = [e EXCEPT !.Items[count] = value]
        ELSE \E i \in 0..(count - 1) :
               dist' = IF i < LenOf(d.Items)
                       THEN [e EXCEPT !.Items[i] = value]
                       ELSE e
  /\ sampled' = Append(sampled, value)
  /\ UNCHANGED <<notDist, result>>

\* Distribution.Percentiles: zeros when Items is empty; else the first
\* n = min(Count, len(Items)) items are copied and sorted and three of them
\* returned with max; an index outside the copy is a run-time panic
Percentiles ==
  /\ LET len == LenOf(dist.Items)
         n == IF dist.Count > len THEN len ELSE dist.Count
         items == Sorted([i \in 1..n |-> dist.Items[i - 1]])
         percentile(p) == items[PercentileIndex(n, p) + 1]
     IN result' =
          IF len = 0
          THEN [call |-> "returned", at |-> Len(sampled),
                p50 |-> 0, p90 |-> 0, p99 |-> 0, max |-> 0]
          ELSE IF \E p \in {50, 90, 99} : PercentileIndex(n, p) >= n
          THEN [call |-> "panic: index out of range", at |-> Len(sampled),
                p50 |-> 0, p90 |-> 0, p99 |-> 0, max |-> 0]
          ELSE [call |-> "returned", at |-> Len(sampled),
                p50 |-> percentile(50), p90 |-> percentile(90),
                p99 |-> percentile(99), max |-> dist.max]
  /\ UNCHANGED <<notDist, dist, sampled>>

NextDist ==
  \/ \E n \in Capacities : Preallocate(n)
  \/ \E v \in Values : Len(sampled) < MaxSamples /\ Sample(v)
  \/ Percentiles

SpecDistribution == InitAlone /\ [][NextDist]_vars

\* C22: while no more values were sampled than Items holds, the k-th value
\* sampled is at Items[k-1]: Items[0..Count) is what was sampled, in order,
\* and nothing sampled was dropped or overwritten.
C22_PrefixFill ==
  dist.Count <= LenOf(dist.Items) =>
    \A k \in 1..dist.Count : dist.Items[k - 1] = sampled[k]

\* C23: Percentiles on a Distribution that has sampled nothing returns, and
\* returns zero four times, whether Items is nil or was allocated by the
\* caller.
C23_PercentilesOfNothing ==
  (result # NoResult /\ result.at = 0) =>
    /\ result.call = "returned"
    /\ result.p50 = 0 /\ result.p90 = 0 /\ result.p99 = 0 /\ result.max = 0

\* the largest element of a non-empty sequence of numbers
MaxOf(s) == CHOOSE x \in {s[i] : i \in DOMAIN s} : \A i \in DOMAIN s : s[i] <= x

\* C24: after k values, k from 1 to len(Items), Percentiles returns the
\* elements at floor(k*0.50), floor(k*0.90) and floor(k*0.99) of the k
\* values sampled, sorted, and the largest of them; after one value v it
\* returns v four times.
C24_PercentilesOfSampled ==
  (result # NoResult /\ result.at >= 1 /\ result.at <= LenOf(dist.Items)) =>
    LET k == result.at
        sorted == Sorted(SubSeq(sampled, 1, k))
    IN /\ result.call = "returned"
       /\ result.p50 = sorted[((k * 50) \div 100) + 1]
       /\ result.p90 = sorted[((k * 90) \div 100) + 1]
       /\ result.p99 = sorted[((k * 99) \div 100) + 1]
       /\ result.max = MaxOf(SubSeq(sampled, 1, k))

----------------------------------------------------------------------------
(* Inbound.Validate and NewInboundServer on one Inbound of any shape.      *)

\* the Inbound objects handed over: with and without a Name, a Listen
\* address, outbounds, an Active that is or is not one of them, timeouts
ProbeDescriptors ==
  [Name : {"bob", ""}, Listen : {":23456", ":0", ""},
   Active : {"", "s0", "s1"},
   Outbound : {EmptyMap, [o \in {"s0"} |-> "h0"],
               [o \in {"s0", "s1"} |-> IF o = "s0" THEN "h0" ELSE ""]},
   Timeout : {0, TestTimeout}, TimeoutCode : {0, StatusServiceUnavailable},
   IdleConnections : {0}, once : {"new"}, stats : {EmptyMap}]

\* a caller calls inbound.Validate(): the object afterwards and the error
InboundValidate(d) ==
  /\ probe = NoProbe
  /\ probe' = [pc |-> "validated", given |-> d, inbound |-> Validated(d),
               err |-> Validate(Validated(d)), set |-> FALSE,
               listening |-> FALSE]
  /\ UNCHANGED <<notProbe>>

\* a caller calls NewInboundServer(inbound): Validate; on success Init and
\* setInbound, then net.Listen; on success the server listens
ProbeNewInboundServer(d) ==
  /\ probe = NoProbe
  /\ LET s == NewInboundServerOn(d, Len(heap) + 1)
         valid == Validate(Validated(d)) = ""
     IN probe' = [pc |-> "new", given |-> d,
                  inbound |-> IF valid THEN s.inbound ELSE Validated(d),
                  err |-> s.err, set |-> valid, listening |-> s.err = ""]
  /\ UNCHANGED <<notProbe>>

NextProbe ==
  \/ \E d \in ProbeDescriptors : InboundValidate(d)
  \/ \E d \in ProbeDescriptors : ProbeNewInboundServer(d)

SpecValidate == InitAlone /\ [][NextProbe]_vars

\* what Validate is to reject: no Listen, no Outbound, no Active, or an
\* Active that is not a key of Outbound
Invalid(d) ==
  \/ d.Listen = ""
  \/ DOMAIN d.Outbound = {}
  \/ d.Active = ""
  \/ d.Active \notin DOMAIN d.Outbound

\* C25: Validate returns an error exactly for an Inbound without Listen,
\* without Outbound, without Active or with an Active that is not a key of
\* Outbound, with or without a Name; and for such an Inbound
\* NewInboundServer returns an error, has stored it in no server and has
\* bound no listener.
C25_ValidateRejects ==
  /\ probe.pc = "validated" => (probe.err # "" <=> Invalid(probe.given))
  /\ (probe.pc = "new" /\ Invalid(probe.given)) =>
       /\ probe.err # ""
       /\ ~ probe.set
       /\ ~ probe.listening

\* NewInboundServer has rejected an Inbound without a Name whose Active is
\* not one of its outbounds
C25_Witness ==
  /\ probe.pc = "new"
  /\ probe.given.Name = "" /\ probe.given.Listen = ":0"
  /\ probe.given.Active = "s1" /\ DOMAIN probe.given.Outbound = {"s0"}
  /\ probe.err = "active outbound doesn't exist"

\* C26: Validate, whether it returns an error or not, leaves the Inbound as
\* it was: Name, Listen, Outbound, Active, Timeout, TimeoutCode and stats.
C26_ValidateIsPure ==
  probe.pc = "validated" => probe.inbound = probe.given

----------------------------------------------------------------------------
(* Algebraic properties of the calls on outbounds. *)

\* what a client of the inbound can tell one Inbound from another by: where
\* it listens, where its requests go, whose response it gets, after what
\* time and with what code it is turned away
Visible(inbound) ==
  <<inbound.Name, inbound.Listen, inbound.Outbound, inbound.Active,
    inbound.Timeout, inbound.TimeoutCode>>

\* C27: ActivateOutbound(x) fails for an x that is not a key of Outbound and
\* publishes nothing; for a key it makes x the Active and leaves Outbound as
\* it was; and when x is the Active already, as it is after a first
\* ActivateOutbound(x), the version it publishes is to a client the version
\* that was published before.
C27_ActivateOutbound ==
  [][(last'.op = "activate" /\ last'.inb \in DOMAIN inbounds) =>
       LET s == inbounds[last'.inb]
           before == heap[servers[s].inbound]
           after == heap'[servers'[s].inbound]
           x == last'.out
       IN /\ x \notin DOMAIN before.Outbound =>
               /\ last'.err = "unknown outbound"
               /\ servers' = servers /\ heap' = heap
          /\ x \in DOMAIN before.Outbound =>
               /\ last'.err = ""
               /\ after.Active = x
               /\ after.Outbound = before.Outbound
          /\ (x \in DOMAIN before.Outbound /\ before.Active = x) =>
               Visible(after) = Visible(before)]_vars

\* ActivateOutbound("bob", "s1") has returned twice in a row without error,
\* the first time while s0 was the active outbound
C27_Witness ==
  /\ Len(hist) >= 3
  /\ last.op = "activate" /\ last.out = "s1" /\ last.err = ""
  /\ hist[Len(hist)].op = "activate" /\ hist[Len(hist)].out = "s1"
  /\ hist[Len(hist) - 1].op = "activate" /\ hist[Len(hist) - 1].out = "s1"
  /\ heap[hist[Len(hist) - 1].parent].Active = "s0"
  /\ GetInbound(1).Active = "s1"

\* a step in which RemoveOutbound(x) returns on the inbound on which the
\* call before it, AddOutbound(x, a), has returned without error
RemoveAfterAdd ==
  /\ last.op = "add" /\ last.err = ""
  /\ last'.op = "remove" /\ last'.out = last.out /\ last'.inb = last.inb

\* the Inbound that AddOutbound copied, and the one published when
\* RemoveOutbound has returned
Prior == heap[hist[Len(hist)].parent]
Final == heap'[servers'[inbounds[last.inb]].inbound]

\* C28, as stated: AddOutbound(x, a) followed by RemoveOutbound(x) leaves
\* Outbound with the keys it had before the AddOutbound, for every x.
C28_AddThenRemoveRestoresKeys ==
  [][RemoveAfterAdd => DOMAIN Final.Outbound = DOMAIN Prior.Outbound]_vars

\* C28, amended: AddOutbound(x, a) followed by RemoveOutbound(x) leaves
\* Outbound with the keys it had before when x was not one of them; when x
\* was the Active one RemoveOutbound fails and the keys are those of before;
\* when x was another key, the keys are those of before without x.
C28_AddThenRemove ==
  [][RemoveAfterAdd =>
       LET x == last.out
       IN /\ x \notin DOMAIN Prior.Outbound =>
               /\ last'.err = ""
               /\ DOMAIN Final.Outbound = DOMAIN Prior.Outbound
          /\ x = Prior.Active =>
               /\ last'.err = "can't remove active outbound"
               /\ DOMAIN Final.Outbound = DOMAIN Prior.Outbound
          /\ (x \in DOMAIN Prior.Outbound /\ x # Prior.Active) =>
               /\ last'.err = ""
               /\ DOMAIN Final.Outbound = (DOMAIN Prior.Outbound) \ {x}]_vars

\* s1, which was not an outbound, was added with the empty address and then
\* removed: the outbounds are again those of before, s0 alone
C28_Witness ==
  /\ Len(hist) >= 3
  /\ last.op = "remove" /\ last.out = "s1" /\ last.err = ""
  /\ hist[Len(hist)].op = "remove" /\ hist[Len(hist)].out = "s1"
  /\ hist[Len(hist)].parent = Len(hist) - 1
  /\ hist[Len(hist) - 1].op = "add" /\ hist[Len(hist) - 1].out = "s1"
  /\ heap[Len(hist) - 1].Outbound["s1"] = ""
  /\ DOMAIN heap[hist[Len(hist) - 1].parent].Outbound = {"s0"}
  /\ DOMAIN GetInbound(1).Outbound = {"s0"}

----------------------------------------------------------------------------
(* A request whose body cannot be read. *)

\* the Events in all StatsRecorders
EventsRecorded ==
  SumOf([id \in DOMAIN recorders |-> recorders[id].events], DOMAIN recorders)

\* the attempts that have ended with a response, a timeout or an error
AttemptsEnded ==
  {<<r, o>> \in ReqIds \X OutNames : req[r].att[o].st \in Outcomes}

\* C29: when ReadAll fails on the body of a request, the step answers 400,
\* once, and records nothing, and neither then nor later does an outbound,
\* active or not, get an attempt of that request; the Events recorded are
\* those of the attempts that have ended, one each.
C29_BodyReadFails ==
  /\ [](/\ \A r \in ReqIds :
             (req[r].pc = "done" /\ req[r].w.status = StatusBadRequest) =>
               /\ req[r].w.n = 1 /\ req[r].w.from = "-"
               /\ Dispatched(r) = {}
               /\ req[r].active = ""
        /\ EventsRecorded = Cardinality(AttemptsEnded))
  /\ [][\A r \in ReqIds :
          (req[r].pc = "serve" /\ req'[r].pc = "done") =>
            /\ req'[r].w.status = StatusBadRequest
            /\ req'[r].att = req[r].att
            /\ recorders' = recorders]_vars

\* a request of a version with two outbounds was answered 400 after another
\* request of that version had been forwarded to both and answered
C29_Witness ==
  \E r, q \in ReqIds :
    /\ req[r].pc = "done" /\ req[r].w.status = StatusBadRequest
    /\ req[q].pc = "done" /\ req[q].ver = req[r].ver
    /\ Dispatched(q) = {"s0", "s1"}
    /\ q < r
    /\ EventsRecorded >= 1

----------------------------------------------------------------------------
(* Controller.Close.  It takes no mutex: the calls that do, each one step,  *)
(* run between its statements.                                             *)

\* Close: "for _, server := range control.inbounds" begins
CloseStart ==
  /\ closing.pc = "idle"
  /\ closing' = [pc |-> "range", seen |-> {},
                 was |-> {inbounds[n] : n \in DOMAIN inbounds}]
  /\ UNCHANGED <<plane, attempt, recVars, muVars, distVars, probe>>

\* Close, one turn of the loop: server.Close() for an entry the loop has not
\* produced yet
CloseVisit(n) ==
  /\ closing.pc = "range"
  /\ n \in DOMAIN inbounds
  /\ inbounds[n] \notin closing.seen
  /\ servers' = [servers EXCEPT ![inbounds[n]] = Closed(@)]
  /\ closing' = [closing EXCEPT !.seen = @ \cup {inbounds[n]}]
  /\ UNCHANGED <<inbounds, heap, recorders, client, last, req, hist, denied,
                 attempt, recVars, muVars, distVars, probe>>

\* the range loop has ended: it has produced every entry that was in the map
\* when it began and is still there; an entry stored since then it may have
\* produced or not
RangeDone(c, registry) ==
  \A n \in DOMAIN registry : registry[n] \in c.was => registry[n] \in c.seen

\* Close: "control.inbounds = nil" and the return
CloseNil ==
  /\ closing.pc = "range"
  /\ RangeDone(closing, inbounds)
  /\ inbounds' = EmptyMap
  /\ closing' = [closing EXCEPT !.pc = "done"]
  /\ UNCHANGED <<servers, heap, recorders, client, last, req, hist, denied,
                 attempt, recVars, muVars, distVars, probe>>

\* the descriptors handed to AddInbound while Close runs: those that
\* Validate accepts, on a port of the system's choice
CloseDescriptors ==
  {d \in AddDescriptors : d.Listen = ":0" /\ Validate(d) = ""}

NextClose ==
  \/ \E d \in CloseDescriptors :
       ControllerAddInbound(d) /\ Len(servers') <= MaxInbounds + 1
  \/ \E inb \in RemoveNames : ControllerRemoveInbound(inb)
  \/ CloseStart
  \/ \E n \in RemoveNames : CloseVisit(n)
  \/ CloseNil

SpecClose == InitAlone /\ [][NextClose]_vars

\* Controller.List: the Inbound of every entry of the registry
List == {GetInbound(inbounds[n]) : n \in DOMAIN inbounds}

\* C30: once Close has returned, every InboundServer that was in the
\* registry when Close was called has its listener closed, and the registry
\* is empty: List has nothing to return, and no name is that of an inbound,
\* so that every call that names one reports an unknown inbound.
C30_Close ==
  closing.pc = "done" =>
    /\ \A s \in closing.was : ~ servers[s].open
    /\ DOMAIN inbounds = {}
    /\ List = {}

----------------------------------------------------------------------------
(* The task of a request and the goroutines it starts.  Client.Do of the   *)
(* active attempt returns, with a response or an error, since the Client   *)
(* has a Timeout; nothing is assumed of the attempts made by goroutines.   *)

NextServe ==
  \/ \E inb \in DOMAIN inbounds, out \in OutNames, addr \in Addrs :
       /\ Ops < MaxServed
       /\ ControllerAddOutbound(inb, out, addr) /\ last'.err = ""
  \/ \E inb \in DOMAIN inbounds, out \in OutNames :
       /\ Ops < MaxServed
       /\ ControllerRemoveOutbound(inb, out) /\ last'.err = ""
  \/ \E inb \in DOMAIN inbounds, out \in OutNames :
       /\ Ops < MaxServed
       /\ ControllerActivateOutbound(inb, out) /\ last'.err = ""
  \/ \E r \in ReqIds : Ops < MaxServed /\ Accept(r)
  \/ \E r \in ReqIds : InboundInit(r)
  \/ \E r \in ReqIds, o \in OutNames : InboundInitLoop(r, o)
  \/ \E r \in ReqIds, b \in BOOLEAN : ServeHTTP(r, b)
  \/ \E r \in ReqIds : Forward(r)
  \/ \E r \in ReqIds, oc \in Outcomes : ForwardDone(r, oc)
  \/ \E r \in ReqIds, o \in OutNames, oc \in Outcomes : BackgroundDone(r, o, oc)

\* the steps of the task of request `r` up to its call of Client.Do for the
\* active outbound
TaskStep(r) ==
  \/ InboundInit(r)
  \/ \E o \in OutNames : InboundInitLoop(r, o)
  \/ \E b \in BOOLEAN : ServeHTTP(r, b)
  \/ Forward(r)

SpecServe ==
  /\ Init
  /\ [][NextServe]_vars
  /\ \A r \in ReqIds : WF_vars(TaskStep(r))
  /\ \A r \in ReqIds : WF_vars(\E oc \in Outcomes : ForwardDone(r, oc))

\* C31: the task of a request waits for the active attempt only: what it
\* writes of an outbound or of TimeoutCode is written when the active
\* attempt has ended, and from the moment it has sent to the active outbound
\* it comes to write its response, also when attempts to other outbounds
\* stay pending for ever.
C31_WaitsForActiveOnly ==
  /\ [](\A r \in ReqIds :
         (req[r].w.n > 0 /\ req[r].w.status # StatusBadRequest) =>
           /\ req[r].active # ""
           /\ req[r].att[req[r].active].st \in Outcomes)
  /\ \A r \in ReqIds :
       (req[r].pc = "wait") ~> (req[r].pc = "done" /\ req[r].w.n = 1)

\* a request answered with the response of its active outbound while its
\* attempt to another outbound is still pending
C31_Witness ==
  \E r \in ReqIds : \E o \in OutNames :
    /\ req[r].pc = "done"
    /\ req[r].w.from = req[r].active
    /\ req[r].att[o].task = "bg" /\ req[r].att[o].st = "pending"

\* the requests whose body has been read: past ReadAll without its error
BodyRead(r) ==
  \/ req[r].pc \in {"fwd", "wait", "panic"}
  \/ req[r].pc = "done" /\ req[r].w.status # StatusBadRequest

\* the request has its one response: that of the active outbound when the
\* active attempt was answered, TimeoutCode when it was not, and every
\* outbound of its version has been sent the request
Answered(r) ==
  /\ req[r].pc = "done"
  /\ req[r].w.n = 1
  /\ req[r].active = Serving(r).Active
  /\ IF req[r].att[req[r].active].st = "resp"
     THEN req[r].w.from = req[r].active /\ req[r].w.status = CodeOf(req[r].active)
     ELSE req[r].w.from = "-" /\ req[r].w.status = Serving(r).TimeoutCode
  /\ \A o \in DOMAIN Serving(r).Outbound : req[r].att[o].n = 1

\* the deadline of an attempt under way is the Timeout of its Inbound
Bounded(r) ==
  req[r].pc = "wait" =>
    client.Timeout > 0 /\ client.Timeout = Serving(r).Timeout

\* C33: every attempt is bounded by Inbound.Timeout, and every request
\* whose body was read comes to have exactly one response, that of the active
\* outbound or TimeoutCode, with the request sent to every outbound of its
\* version.
C33_EveryRequestAnswered ==
  /\ [](\A r \in ReqIds : Bounded(r))
  /\ \A r \in ReqIds : BodyRead(r) ~> Answered(r)

\* the Record calls that hold the mutex: between Lock and Unlock
Recording == {t \in TaskIds : tasks[t].pc \in {"requests", "kind"}}

\* the step is a tick of the roller
Ticks == recorder'.rolls = recorder.rolls + 1

\* C34: Record and the roller are atomic with respect to each other.  A
\* Record call makes both its increments in the window that is current while
\* it does, and no step writes to any other window; a roll happens while no
\* Record call is half way, makes the current window the result of Read in
\* place of the one that was, which is never the result again, and installs
\* a new current window with all counters zero; and between rolls the result
\* of Read and the current window stay the same.
C34_RecordAndRollAtomic ==
  /\ [](\A t \in Recording : tasks[t].stats = recorder.current)
  /\ [][\A i \in DOMAIN windows :
          windows'[i] # windows[i] =>
            /\ i = recorder.current
            /\ \E t \in Recording : tasks'[t] # tasks[t]]_vars
  /\ [][Ticks =>
          /\ Recording = {}
          /\ recorder'.prev = recorder.current
          /\ recorder.prev < recorder'.prev
          /\ recorder'.current = Len(windows) + 1
          /\ windows'[recorder'.current] = ZeroStats]_vars
  /\ [][(~ Ticks /\ recorder.initialize = "done") =>
          /\ recorder'.prev = recorder.prev
          /\ recorder'.current = recorder.current]_vars

\* after two rolls the result of Read is a window with an Event recorded
\* between them, an Event recorded before the first roll is in a window that
\* is no longer the result, and a Record call is half way in the current one
C34_Witness ==
  /\ recorder.rolls = 2
  /\ windows[recorder.prev].Requests >= 1
  /\ \E i \in DOMAIN windows :
       i < recorder.prev /\ windows[i].Requests >= 1
  /\ \E t \in TaskIds : tasks[t].pc = "kind"

\* C35: ServeHTTP never panics with "no active outbound": no request, of
\* whatever version that calls of AddOutbound, RemoveOutbound and
\* ActivateOutbound have published, ends its loop over Outbound without an
\* activeHost, the empty address included.
C35_NoActiveOutboundPanic ==
  \A r \in ReqIds :
    ~ ( /\ req[r].pc = "panic"
        /\ req[r].active = ""
        /\ ActiveHost(Serving(r)) = "" )

\* C36: Inbound.record never panics with "no stats for outbound": the
\* version a request was dispatched by holds a StatsRecorder for every
\* outbound it has an attempt to, pending or ended, whatever has been
\* published since, the removal of that outbound included.
C36_NoStatsPanic ==
  \A r \in ReqIds : \A o \in OutNames :
    /\ req[r].att[o].st # "nostats"
    /\ req[r].att[o].n > 0 => o \in DOMAIN Serving(r).stats

\* the published version has lost an outbound by a removal, while one
\* request dispatched before has recorded the Event of its attempt to that
\* outbound and the attempt of another is still pending
C36_Witness ==
  \E r1, r2 \in ReqIds : \E o \in OutNames :
    /\ o \notin DOMAIN GetInbound(1).stats
    /\ hist[Len(hist)].op = "remove" /\ hist[Len(hist)].out = o
    /\ req[r1].att[o].task = "bg" /\ req[r1].att[o].st \in Outcomes
    /\ req[r2].att[o].task = "bg" /\ req[r2].att[o].st = "pending"

----------------------------------------------------------------------------
(* Controller.Start over a list of inbounds.  The initial state is Start   *)
(* after the first inbound of the list; NewController returns, and the     *)
(* other calls begin, when the loop is over.                               *)

\* Start is in its loop: it has not panicked and no call has returned yet
Starting == last = NoCall

\* Controller.Start, one more turn of "for i, inbound := range
\* control.Inbounds": NewInboundServer, log.Panicf on its error, else
\* "control.inbounds[inbound.Name] = server"
StartNext(d) ==
  /\ Starting
  /\ LET v == Len(heap) + 1
         s == NewInboundServerOn(d, v)
     IN IF s.err # ""
        THEN /\ last' = [op |-> "start", inb |-> d.Name, out |-> "",
                         addr |-> d.Listen, err |-> "panic: " \o s.err]
             /\ UNCHANGED <<inbounds, servers, heap, recorders, hist>>
        ELSE /\ heap' = Append(heap, s.inbound)
             /\ hist' = Append(hist, [op |-> "start", out |-> "",
                                      parent |-> 0, inherited |-> EmptyMap])
             /\ recorders' =
                  [id \in (DOMAIN recorders) \cup
                          {s.inbound.stats[o] : o \in DOMAIN s.inbound.stats} |->
                     IF id \in DOMAIN recorders THEN recorders[id]
                     ELSE NewRecorder]
             /\ servers' = Append(servers, [inbound |-> v, open |-> TRUE])
             /\ inbounds' = MapPut(inbounds, s.inbound.Name, Len(servers) + 1)
             /\ UNCHANGED last
  /\ UNCHANGED <<client, req, denied, apart>>

\* Start has returned without a panic
Started == last.op # "start"

NextStart ==
  \/ \E d \in AddDescriptors :
       StartNext(d) /\ Len(servers') <= MaxInbounds + 1
  \/ \E d \in AddDescriptors :
       Started /\ ControllerAddInbound(d) /\ Len(servers') <= MaxInbounds + 1
  \/ \E inb \in RemoveNames : Started /\ ControllerRemoveInbound(inb)

SpecStart == InitAlone /\ [][NextStart]_vars

\* C37: every InboundServer that the Controller has started and not closed
\* is the entry of the registry under the Name of its Inbound, whatever the
\* list given to Start and the inbounds given to AddInbound.
C37_StartedServersRegistered ==
  \A s \in DOMAIN servers :
    servers[s].open =>
      /\ GetInbound(s).Name \in DOMAIN inbounds
      /\ inbounds[GetInbound(s).Name] = s

\* the servers whose listener is open and that no entry of the registry
\* refers to
Unreachable ==
  {s \in DOMAIN servers :
     servers[s].open /\ ~ \E n \in DOMAIN inbounds : inbounds[n] = s}

\* C38: Close is safe beside AddInbound and RemoveInbound: no call made
\* while Close runs or after it has returned panics, and once Close and the
\* other calls have returned every listener that is still open belongs to a
\* server of the registry.
C38_CloseIsSafe ==
  /\ last.err # "panic: assignment to entry in nil map"
  /\ closing.pc = "done" => Unreachable = {}

\* C39: the http.Client shared by the versions of an inbound is left as it
\* is by every mutation and by the requests of the version it publishes: no
\* step after construction changes its Transport or its Timeout.
C39_ClientUntouched ==
  [][/\ client'.Transport = client.Transport
     /\ client'.Timeout = client.Timeout]_vars

----------------------------------------------------------------------------
(* The two mutexes together: callers of the Controller, which hold         *)
(* control.mutex and inside it, for a stats read, take the mutex of a      *)
(* StatsRecorder; attempts that call Record on that recorder; its roller.  *)
(* The recorder is the one of outbound "s0" of inbound "bob".              *)

\* the holder of the recorder's mutex when it is caller k of the Controller
HolderOf(k) == MaxTasks + k

\* Controller.ReadOutboundStats after control.mutex.Lock(): the lookups in
\* control.inbounds and in Outbound, then StatsRecorder.Read up to its
\* recorder.Init()
CallReadStats(k) ==
  /\ calls[k].pc = "locked"
  /\ calls[k].call.op = "readstats"
  /\ LET c == calls[k].call
         err == IF c.inb \notin DOMAIN inbounds THEN "unknown inbound"
                ELSE IF c.out \notin DOMAIN GetInbound(inbounds[c.inb]).Outbound
                THEN "unknown outbound"
                ELSE ""
     IN /\ calls' = [calls EXCEPT ![k].pc = IF err = "" THEN "rlock" ELSE "read",
                                  ![k].res.err = err]
        /\ IF err = "" /\ recorder.initialize = "new"
           THEN /\ recorder' = RecorderInit(recorder, windows)
                /\ windows' = windows \o <<ZeroStats, ZeroStats>>
           ELSE UNCHANGED <<recorder, windows>>
  /\ UNCHANGED <<plane, attempt, tasks, mutex, distVars, probe, closing>>

\* StatsRecorder.Read inside the Controller call: recorder.mutex.Lock();
\* stats = recorder.prev
CallReadLock(k) ==
  /\ calls[k].pc = "rlock"
  /\ MutexFree(recorder)
  /\ recorder' = [recorder EXCEPT !.mutex = HolderOf(k)]
  /\ calls' = [calls EXCEPT ![k].pc = "runlock"]
  /\ UNCHANGED <<plane, attempt, windows, tasks, mutex, distVars, probe, closing>>

\* StatsRecorder.Read inside the Controller call: recorder.mutex.Unlock()
CallReadUnlock(k) ==
  /\ calls[k].pc = "runlock"
  /\ recorder' = [recorder EXCEPT !.mutex = 0]
  /\ calls' = [calls EXCEPT ![k].pc = "read"]
  /\ UNCHANGED <<plane, attempt, windows, tasks, mutex, distVars, probe, closing>>

\* the return of Controller.ReadOutboundStats and the deferred
\* control.mutex.Unlock()
CallReadReturn(k) ==
  /\ calls[k].pc = "read"
  /\ mutex' = 0
  /\ calls' = [calls EXCEPT ![k].pc = "done",
                            ![k].call.err = calls[k].res.err]
  /\ last' = [calls[k].call EXCEPT !.err = calls[k].res.err]
  /\ UNCHANGED <<inbounds, servers, heap, recorders, client, req, hist, denied,
                 notMutex>>

\* the steps of caller k that wait for a mutex, and its other steps
CallerLocks(k) == CallLock(k) \/ CallReadLock(k)
CallerSteps(k) ==
  \/ calls[k].call.op # "readstats" /\ CallCopy(k)
  \/ calls[k].call.op # "readstats" /\ CallReturn(k)
  \/ CallReadStats(k)
  \/ CallReadUnlock(k)
  \/ CallReadReturn(k)

\* the steps of task t of the recorder that wait for its mutex, and its
\* other steps
TaskLocks(t) == RecordLock(t)
TaskSteps(t) == RecordRequests(t) \/ RecordKind(t)

NextLocks ==
  \/ \E k \in CallerIds : CallStart(k, "activate", "bob", "s0", "")
  \/ \E k \in CallerIds, inb \in InNames :
       CallStart(k, "readstats", inb, "s0", "")
  \/ \E k \in CallerIds : CallerLocks(k)
  \/ \E k \in CallerIds : CallerSteps(k)
  \/ \E t \in TaskIds : StatsInit(t, "record", ResponseEvent(StatusOK))
  \/ \E t \in TaskIds : TaskLocks(t)
  \/ \E t \in TaskIds : TaskSteps(t)
  \/ Roll

\* fair scheduling: a task that can take a step takes one, and a task that
\* waits for a mutex which is free again and again gets it
SpecLocks ==
  /\ InitAlone
  /\ [][NextLocks]_vars
  /\ \A k \in CallerIds : WF_vars(CallerSteps(k)) /\ SF_vars(CallerLocks(k))
  /\ \A t \in TaskIds : WF_vars(TaskSteps(t)) /\ SF_vars(TaskLocks(t))

\* a call of the Controller or a Record call has begun and not returned
UnderWay ==
  \/ \E k \in CallerIds : calls[k].pc \notin {"idle", "done"}
  \/ \E t \in TaskIds : tasks[t].pc \notin {"idle", "done"}

\* C40: no deadlock: every call of the Controller that has begun returns,
\* the Read inside it included, and every Record call on the recorder
\* returns, whatever the other callers, the attempts and the roller do
\* meanwhile: a call returns once, so from some moment on none is under way.
C40_NoDeadlock == <>[](~ UnderWay)

\* a caller inside ReadOutboundStats holds the Controller mutex and waits
\* for the mutex of the recorder, which a Record call holds, while another
\* caller waits for the Controller mutex, after a roll
C40_Witness ==
  \E k, j \in CallerIds : \E t \in TaskIds :
    /\ mutex = k /\ calls[k].pc = "rlock"
    /\ calls[j].pc = "lock"
    /\ recorder.mutex = t /\ tasks[t].op = "record"
    /\ recorder.rolls >= 1

----------------------------------------------------------------------------
(* Inbound.UnmarshalJSON: the descriptor of an inbound as a JSON object.   *)
(* A JSON string is the sequence of its characters; durations are in       *)
(* milliseconds, as everywhere in the model.                               *)

Digits == {"0", "1", "2", "3", "4", "5", "6", "7", "8", "9"}
DigitValue ==
  [c \in Digits |->
     CASE c = "0" -> 0 [] c = "1" -> 1 [] c = "2" -> 2 [] c = "3" -> 3
       [] c = "4" -> 4 [] c = "5" -> 5 [] c = "6" -> 6 [] c = "7" -> 7
       [] c = "8" -> 8 [] c = "9" -> 9]

\* time.unitMap, each unit as the fraction num / den of a millisecond
UnitMap ==
  << [u |-> <<"n", "s">>, num |-> 1, den |-> 1000000],
     [u |-> <<"u", "s">>, num |-> 1, den |-> 1000],
     [u |-> <<"m", "s">>, num |-> 1, den |-> 1],
     [u |-> <<"s">>, num |-> 1000, den |-> 1],
     [u |-> <<"m">>, num |-> 60000, den |-> 1],
     [u |-> <<"h">>, num |-> 3600000, den |-> 1] >>

\* time.leadingInt: the digits at the head of `s` as a number (`scale` is
\* 10 to the number of digits), and what follows them
RECURSIVE LeadingInt(_, _)
LeadingInt(s, acc) ==
  IF s # <<>> /\ Head(s) \in Digits
  THEN LeadingInt(Tail(s), [v |-> acc.v * 10 + DigitValue[Head(s)],
                            scale |-> acc.scale * 10])
  ELSE [v |-> acc.v, scale |-> acc.scale, rest |-> s]

\* the length of the unit at the head of `s`: up to the next '.' or digit
RECURSIVE UnitLen(_)
UnitLen(s) ==
  IF s = <<>> \/ Head(s) = "." \/ Head(s) \in Digits THEN 0
  ELSE 1 + UnitLen(Tail(s))

InvalidDuration == [err |-> "time: invalid duration", d |-> 0]

\* time.ParseDuration, the loop "for s != ''" over [0-9]*(\.[0-9]*)?[a-z]+ ;
\* `num` / `den` is the duration read so far
RECURSIVE ParseSegments(_, _, _)
ParseSegments(s, num, den) ==
  IF s = <<>> THEN [err |-> "", d |-> num \div den]
  ELSE IF ~ (Head(s) = "." \/ Head(s) \in Digits) THEN InvalidDuration
  ELSE
    LET int == LeadingInt(s, [v |-> 0, scale |-> 1])
        pre == int.rest # s
        dot == int.rest # <<>> /\ Head(int.rest) = "."
        frac == IF dot THEN LeadingInt(Tail(int.rest), [v |-> 0, scale |-> 1])
                ELSE [v |-> 0, scale |-> 1, rest |-> int.rest]
        post == dot /\ frac.rest # Tail(int.rest)
        i == UnitLen(frac.rest)
        units == {k \in DOMAIN UnitMap : UnitMap[k].u = SubSeq(frac.rest, 1, i)}
    IN IF ~ pre /\ ~ post THEN InvalidDuration
       ELSE IF i = 0 THEN [err |-> "time: missing unit in duration", d |-> 0]
       ELSE IF units = {}
       THEN [err |-> "time: unknown unit in duration", d |-> 0]
       ELSE LET unit == UnitMap[CHOOSE k \in units : TRUE]
                \* v * unit + f * unit / scale, over the common denominator
                n == (int.v * frac.scale + frac.v) * unit.num
                m == frac.scale * unit.den
            IN ParseSegments(SubSeq(frac.rest, i + 1, Len(frac.rest)),
                             num * m + n * den, den * m)

\* time.ParseDuration: [-+]?, the special case "0", the error for "", then
\* the segments
ParseDuration(s) ==
  LET signed == s # <<>> /\ Head(s) \in {"-", "+"}
      neg == signed /\ Head(s) = "-"
      t == IF signed THEN Tail(s) ELSE s
  IN IF t = <<"0">> THEN [err |-> "", d |-> 0]
     ELSE IF t = <<>> THEN InvalidDuration
     ELSE LET r == ParseSegments(t, 0, 1)
          IN IF r.err # "" THEN r
             ELSE [err |-> "", d |-> IF neg THEN 0 - r.d ELSE r.d]

\* the texts of the "timeout" key
TimeoutTexts ==
  { <<>>, <<"0">>, <<"5", "0", "m", "s">>, <<"1", "0", "0", "m", "s">>,
    <<"1", "s">>, <<"1", ".", "5", "s">>, <<"1", "m", "3", "0", "s">>,
    <<"5", "0">>, <<"m", "s">>, <<"1", "0", "0", "m", "s", "e", "c">>,
    <<"-", "1", "s">>, <<"2", "0", "0", "0", "u", "s">> }

\* the keys a descriptor may leave out, and those that all the bodies have
OptionalKeys == {"name", "timeout", "timeoutCode", "idleConn"}
RequiredKeys == {"listen", "out", "active"}

\* the JSON objects handed to UnmarshalJSON: `keys` are the keys present;
\* the timeout is a JSON string or, wrongly, a JSON number
Bodies ==
  { [keys |-> RequiredKeys \cup k, name |-> "bob", listen |-> ":23456",
     out |-> [o \in {"s0"} |-> "h0"], active |-> a,
     timeout |-> IF "timeout" \in k THEN t
                 ELSE [type |-> "string", chars |-> <<>>],
     timeoutCode |-> 500, idleConn |-> 64] :
      k \in SUBSET OptionalKeys, a \in {"s0", "s1"},
      t \in [type : {"string"}, chars : TimeoutTexts]
            \cup [type : {"number"}, chars : {<<"5", "0">>}] }

\* json.Unmarshal(body, &inboundJSON): the struct it fills, a key that is
\* absent leaving the zero value of its field, and its error for a value of
\* the wrong JSON type
JsonUnmarshal(body) ==
  [err |-> IF "timeout" \in body.keys /\ body.timeout.type # "string"
           THEN "json: cannot unmarshal number into Go value of type string"
           ELSE "",
   Name |-> IF "name" \in body.keys THEN body.name ELSE "",
   Listen |-> IF "listen" \in body.keys THEN body.listen ELSE "",
   Outbound |-> IF "out" \in body.keys THEN body.out ELSE EmptyMap,
   Active |-> IF "active" \in body.keys THEN body.active ELSE "",
   Timeout |-> IF "timeout" \in body.keys /\ body.timeout.type = "string"
               THEN body.timeout.chars ELSE <<>>,
   TimeoutCode |-> IF "timeoutCode" \in body.keys THEN body.timeoutCode ELSE 0,
   IdleConnections |-> IF "idleConn" \in body.keys THEN body.idleConn ELSE 0]

\* new(Inbound)
ZeroInbound ==
  [Name |-> "", Listen |-> "", Active |-> "", Outbound |-> EmptyMap,
   Timeout |-> 0, TimeoutCode |-> 0, IdleConnections |-> 0,
   once |-> "new", stats |-> EmptyMap]

\* Inbound.UnmarshalJSON on a new Inbound: the error it returns and the
\* Inbound it leaves; it returns at the first error, with the fields
\* assigned until then
UnmarshalJSON(body) ==
  LET j == JsonUnmarshal(body)
      d == ParseDuration(j.Timeout)
      named == [ZeroInbound EXCEPT !.Name = j.Name, !.Listen = j.Listen,
                                   !.Outbound = j.Outbound,
                                   !.Active = j.Active]
  IN IF j.err # "" THEN [err |-> j.err, inbound |-> ZeroInbound]
     ELSE IF d.err # "" THEN [err |-> d.err, inbound |-> named]
     ELSE [err |-> "",
           inbound |-> [named EXCEPT !.Timeout = d.d,
                                     !.TimeoutCode = j.TimeoutCode,
                                     !.IdleConnections = j.IdleConnections]]

\* a caller unmarshals a JSON object into a new Inbound
ProbeUnmarshalJSON(body) ==
  /\ probe = NoProbe
  /\ LET u == UnmarshalJSON(body)
     IN probe' = [pc |-> "unmarshalled", body |-> body, err |-> u.err,
                  inbound |-> u.inbound]
  /\ UNCHANGED <<notProbe>>

\* the Inbound that was unmarshalled without error is handed to
\* NewInboundServer: Validate, then Init
ProbeInit ==
  /\ probe.pc = "unmarshalled"
  /\ probe.err = ""
  /\ LET v == Validated(probe.inbound)
     IN probe' = [probe EXCEPT
                    !.pc = "served",
                    !.err = Validate(v),
                    !.inbound = IF Validate(v) = ""
                                THEN [InitFields(v) EXCEPT !.once = "done"]
                                ELSE v]
  /\ UNCHANGED <<notProbe>>

NextUnmarshal ==
  \/ \E body \in Bodies : ProbeUnmarshalJSON(body)
  \/ ProbeInit

SpecUnmarshal == InitAlone /\ [][NextUnmarshal]_vars

\* C32: a descriptor without the "timeout" key is accepted by
\* UnmarshalJSON, which leaves Timeout unset, and the inbound made of it
\* runs with the default timeout of one second.
C32_TimeoutIsOptional ==
  (probe.pc \in {"unmarshalled", "served"} /\ "timeout" \notin probe.body.keys)
    => /\ probe.pc = "unmarshalled" =>
            probe.err = "" /\ probe.inbound.Timeout = 0
       /\ (probe.pc = "served" /\ probe.err = "") =>
            probe.inbound.Timeout = DefaultInboundTimeout

====
